---------------------------- MODULE Spec2Model ----------------------------
(***************************************************************************)
(* Model of the specification extraction and validation engine of docget:  *)
(* the Component / Project data model (src/src/models), the validators     *)
(* ComponentValidator and SpecValidator (src/src/utils/validators.py), the *)
(* SpecificationParser (src/src/agents/SpecificationParser.py), the cache  *)
(* and the chunking of the OrchestratorAgent                               *)
(* (src/src/agents/orchestrator_agent.py) and the turns of the ChatCLI     *)
(* (src/src/cli/chat.py).                                                  *)
(*                                                                         *)
(* Representation.  A Python str is a sequence of one-character strings.   *)
(* An Optional[...] value is a sequence of length at most one: None is     *)
(* << >> and a present value v is << v >>.  A dict is the sequence of its  *)
(* (key, value) pairs in insertion order.  A message (an f-string of the   *)
(* code) is a record holding the literal text and the interpolated values. *)
(***************************************************************************)
EXTENDS Integers, Sequences, FiniteSets, TLC

VARIABLES project, component, input_text, input_table, extracted_data,
          chunk_size, cli, orchestrator, added, result, repeated

vars == <<project, component, input_text, input_table, extracted_data,
          chunk_size, cli, orchestrator, added, result, repeated>>

\* What the operations read: the project, the component, the text, the
\* table, the mapping and the chunk size they are applied to.
inputs == <<project, component, input_text, input_table, extracted_data,
            chunk_size>>

\* The chat session and the orchestrator behind it.
agents == <<cli, orchestrator>>

\* added is the history of the calls of Project.add_component: the
\* components they were given, in the order of the calls.

(***************************************************************************)
(* Bounds of the model.                                                    *)
(***************************************************************************)
MaxCount == 1

MaxProjectComponents == 4

MaxPowerComponents == 4

MaxIfaceComponents == 3

MaxClassifyPieces == 3

MaxPowerPieces == 2

MaxInterfacePieces == 3

MaxTableRows == 2

MaxRepeatComponents == 1

MaxFields == 3

MaxListedComponents == 3

MaxPairRows == 2

MaxExtractPieces == 2

MaxEngineComponents == 2

MaxParsedPieces == 2

MaxTurns == 3

MaxTextLen == 4

MaxChunkSize == 3

MaxMtime == 2

DefaultChunkSize == 8000

\* ChatCLI.__init__: no message yet.  sent is the list of messages the
\* latest reply was asked with.
NewChatCLI == [conversation_history |-> << >>, sent |-> << >>]

\* An OrchestratorAgent of no documents: the PDFs of the data folder, the
\* modification time of each, the cache file (None when there is none),
\* the pre-loaded contents, and what the latest pre-loading pass did: the
\* PDFs it called the extraction service for and whether it saved the cache.
NoOrchestrator ==
    [available_pdfs |-> << >>, mtimes |-> << >>,
     cache_file |-> [exists |-> FALSE, readable |-> FALSE, data |-> << >>],
     pdf_content_cache |-> << >>, extracted |-> << >>, saved |-> FALSE]

\* The parts of the state that an operation family does not use.
Idle ==
    /\ extracted_data = << >>
    /\ chunk_size = DefaultChunkSize
    /\ cli = NewChatCLI
    /\ orchestrator = NoOrchestrator
    /\ added = << >>

(***************************************************************************)
(* Python values.                                                          *)
(***************************************************************************)
None == << >>

Some(v) == << v >>

\* bool(x) of an Optional[str]: None and "" are falsy.
TruthyOpt(o) == o # << >> /\ o[1] # << >>

\* bool(s) of a str.
TruthyStr(s) == s # << >>

UpperChars == <<"A", "B", "C", "D", "E", "F", "G", "H", "I", "J", "K", "L", "M", "N", "O", "P", "Q", "R", "S", "T", "U", "V", "W", "X", "Y", "Z">>

LowerChars == <<"a", "b", "c", "d", "e", "f", "g", "h", "i", "j", "k", "l", "m", "n", "o", "p", "q", "r", "s", "t", "u", "v", "w", "x", "y", "z">>

Digits == <<"0", "1", "2", "3", "4", "5", "6", "7", "8", "9">>

IsDigit(c) == \E i \in 1..Len(Digits) : Digits[i] = c

\* int(c) of a decimal digit character.
DigitVal(c) == (CHOOSE i \in 1..Len(Digits) : Digits[i] = c) - 1

LowerChar(c) ==
    IF \E i \in 1..Len(UpperChars) : UpperChars[i] = c
    THEN LowerChars[CHOOSE i \in 1..Len(UpperChars) : UpperChars[i] = c]
    ELSE c

\* str.lower()
lower(s) == [i \in 1..Len(s) |-> LowerChar(s[i])]

\* `sub in s` for two str values.
Contains(s, sub) ==
    \E i \in 1..(Len(s) - Len(sub) + 1) : SubSeq(s, i, i + Len(sub) - 1) = sub

(***************************************************************************)
(* The regular expressions of the validators, as re evaluates them.        *)
(***************************************************************************)
RECURSIVE DigitsEnd(_, _)
\* The position after the longest run of digits that starts at position i
\* (the greedy \d* of re).
DigitsEnd(s, i) ==
    IF i <= Len(s) /\ IsDigit(s[i]) THEN DigitsEnd(s, i + 1) ELSE i

\* \d+\.?\d* tried at position i: the position after the match, 0 for none.
NumberEndAt(s, i) ==
    LET a == DigitsEnd(s, i)
        b == IF a <= Len(s) /\ s[a] = "." THEN a + 1 ELSE a
    IN  IF a = i THEN 0 ELSE DigitsEnd(s, b)

\* $ without re.MULTILINE: the end of the string, or just before a final
\* newline.
AtDollar(s, i) == i = Len(s) + 1 \/ (i = Len(s) /\ s[i] = "\n")

\* A literal matched at position i under re.IGNORECASE.
LiteralAt(s, i, lit) ==
    /\ i + Len(lit) - 1 <= Len(s)
    /\ lower(SubSeq(s, i, i + Len(lit) - 1)) = lower(lit)

\* Mutant of re_match_units: the pattern without its $ anchor.
re_match_units_unanchored(s, units) ==
    LET k == NumberEndAt(s, 1)
    IN  /\ k # 0
        /\ \E u \in units : LiteralAt(s, k, u)

\* re.match(r'^\d+\.?\d*(u1|u2|...)$', s, re.IGNORECASE), units the
\* alternatives u1, u2, ...
re_match_units(s, units) ==
    LET k == NumberEndAt(s, 1)
    IN  /\ k # 0
        /\ \E u \in units : LiteralAt(s, k, u) /\ AtDollar(s, k + Len(u))

\* r'^\d+\.?\d*V(DC|AC)?$'
voltage_pattern == {<<"V">>, <<"V", "D", "C">>, <<"V", "A", "C">>}

\* r'^\d+\.?\d*(mA|A)$'
current_pattern == {<<"m", "A">>, <<"A">>}

\* r'^\d+\.?\d*(mW|W)$'
power_pattern == {<<"m", "W">>, <<"W">>}

\* r'^\d+\.?\d*mAh$'
capacity_pattern == {<<"m", "A", "h">>}

(***************************************************************************)
(* Data model: PowerSpec, InterfaceSpec, Component, Project.               *)
(***************************************************************************)
PowerSpec(vin, vout, cur, pw, cap) ==
    [voltage_input |-> vin, voltage_output |-> vout, current_rating |-> cur,
     power_consumption |-> pw, capacity |-> cap]

DefaultPowerSpec == PowerSpec(None, None, None, None, None)

InterfaceKinds ==
    {"uart_count", "i2c_count", "spi_count", "can_count", "usb_count",
     "gpio_count", "pwm_count"}

DefaultInterfaceSpec == [k \in InterfaceKinds |-> 0]

\* Component(name=..., component_type=..., source_document=...) with the
\* defaults of the class for every other field.
NewComponent(name, ctype, source) ==
    [name |-> name, component_type |-> ctype, manufacturer |-> None,
     part_number |-> None, power |-> DefaultPowerSpec,
     interfaces |-> DefaultInterfaceSpec, specific_specs |-> << >>,
     source_document |-> source, page_number |-> None, confidence |-> None]

\* Project(name=...) with the defaults of the class: no components, an
\* empty budget and four empty diagnostic lists.
NewProject(name) ==
    [name |-> name, components |-> << >>, total_power_budget |-> << >>,
     compatibility_issues |-> << >>, missing_components |-> << >>,
     warnings |-> << >>, recommendations |-> << >>]

\* dict.get(key, default) on a dict kept as a sequence of pairs.
DictGet(d, key, default) ==
    IF \E i \in 1..Len(d) : d[i][1] = key
    THEN d[CHOOSE i \in 1..Len(d) : d[i][1] = key][2]
    ELSE default

(***************************************************************************)
(* Messages.                                                               *)
(***************************************************************************)
\* A message with no interpolated value.
Msg(text) ==
    [text |-> text, idx |-> 0, name |-> << >>, value |-> << >>,
     errors |-> << >>, values |-> {}, amount |-> 0, need |-> 0, have |-> 0]

\* f"<text>: {value}"
MsgValue(text, value) == [Msg(text) EXCEPT !.value = value]

\* What an operation returned.  ok and list are the pair (or the list) it
\* returned, logged what it wrote to the logger, filled / total the score
\* of check_completeness before the division.
Result(op, ok, list, logged, filled, total) ==
    [op |-> op, ok |-> ok, list |-> list, logged |-> logged,
     filled |-> filled, total |-> total, value |-> << >>]

NoResult == Result("none", TRUE, << >>, << >>, 0, 0)

\* What an operation that returns one value returned: the value, kept as a
\* one-element sequence.
Returned(op, value) ==
    [Result(op, TRUE, << >>, << >>, 0, 0) EXCEPT !.value = << value >>]

\* Mutant of Call: the warnings a project validator returns are appended to
\* the warnings of the project.
Call_appending(r) ==
    /\ result' = r
    /\ repeated' = (result.op = r.op)
    /\ project' = [project EXCEPT !.warnings =
                     IF r.op \in {"validate_project", "check_power_compatibility",
                                  "check_interface_availability"}
                     THEN @ \o r.list ELSE @]
    /\ UNCHANGED <<component, input_text, input_table, extracted_data,
                   chunk_size, agents, added>>

\* Mutant of Call: the list an operation returns is kept between two calls
\* of it and returned with the next list.
Call_accumulating(r) ==
    /\ result' = [r EXCEPT !.list = IF result.op = r.op
                                    THEN result.list \o r.list ELSE r.list]
    /\ repeated' = (result.op = r.op)
    /\ UNCHANGED <<inputs, agents, added>>

\* Mutant of Call: a project validator starts a new pass, the warnings of
\* the project becoming the ones it returns.
Call_resetting(r) ==
    /\ result' = r
    /\ repeated' = (result.op = r.op)
    /\ project' = [project EXCEPT !.warnings =
                     IF r.op \in {"validate_project", "check_power_compatibility",
                                  "check_interface_availability"}
                     THEN r.list ELSE @]
    /\ UNCHANGED <<component, input_text, input_table, extracted_data,
                   chunk_size, agents, added>>

\* Mutant of Call: check_completeness writes its score to the confidence
\* field of the components of the project.
Call_scoring(r) ==
    /\ result' = r
    /\ repeated' = (result.op = r.op)
    /\ project' = [project EXCEPT !.components =
                     IF r.op = "check_completeness"
                     THEN [i \in 1..Len(@) |->
                             [@[i] EXCEPT !.confidence = << << r.filled, r.total >> >>]]
                     ELSE @]
    /\ UNCHANGED <<component, input_text, input_table, extracted_data,
                   chunk_size, agents, added>>

\* A call that returns r and leaves its inputs alone.  repeated records that
\* the call before it was of the same operation, on the same inputs.
Call(r) ==
    /\ result' = r
    /\ repeated' = (result.op = r.op)
    /\ UNCHANGED <<inputs, agents, added>>

(***************************************************************************)
(* ComponentValidator.                                                     *)
(***************************************************************************)
VALID_COMPONENT_TYPES ==
    {<<"m", "o", "t", "o", "r">>, <<"s", "e", "n", "s", "o", "r">>, <<"c", "a", "m", "e", "r", "a">>, <<"p", "r", "o", "c", "e", "s", "s", "o", "r">>, <<"b", "a", "t", "t", "e", "r", "y">>, <<"e", "s", "c">>,
     <<"r", "a", "d", "i", "o">>, <<"p", "o", "w", "e", "r">>, <<"o", "t", "h", "e", "r">>}

\* One format check of _validate_power_spec: a populated field that does
\* not match its pattern appends one error naming the field's value.
FormatCheck(field, pattern, text) ==
    IF TruthyOpt(field) /\ ~re_match_units(field[1], pattern)
    THEN << MsgValue(text, field[1]) >>
    ELSE << >>

validate_power_spec(power_spec) ==
    FormatCheck(power_spec.voltage_input, voltage_pattern,
                "Invalid voltage input format")
    \o FormatCheck(power_spec.voltage_output, voltage_pattern,
                   "Invalid voltage output format")
    \o FormatCheck(power_spec.current_rating, current_pattern,
                   "Invalid current rating format")
    \o FormatCheck(power_spec.power_consumption, power_pattern,
                   "Invalid power consumption format")
    \o FormatCheck(power_spec.capacity, capacity_pattern,
                   "Invalid capacity format")

\* The required-field checks of validate_component, in the code's order.
RequiredErrors(c) ==
    (IF ~TruthyStr(c.name) THEN << Msg("Component name is required") >>
     ELSE << >>)
    \o (IF ~TruthyStr(c.component_type)
        THEN << Msg("Component type is required") >> ELSE << >>)
    \o (IF ~TruthyStr(c.source_document)
        THEN << Msg("Source document is required") >> ELSE << >>)

\* logger.warning of validate_component: an unknown, non-empty type.
TypeWarnings(c) ==
    IF TruthyStr(c.component_type)
       /\ c.component_type \notin VALID_COMPONENT_TYPES
    THEN << MsgValue("Unknown component type", c.component_type) >>
    ELSE << >>

\* Mutant of validate_component: an unknown type is an error.
validate_component_strict_type(c) ==
    LET errors == RequiredErrors(c)
                  \o [i \in 1..Len(TypeWarnings(c)) |->
                        MsgValue("Unknown component type", c.component_type)]
                  \o validate_power_spec(c.power)
    IN  Result("validate_component", Len(errors) = 0, errors, << >>, 0, 0)

validate_component(c) ==
    LET errors == RequiredErrors(c) \o validate_power_spec(c.power)
    IN  Result("validate_component", Len(errors) = 0, errors,
               TypeWarnings(c), 0, 0)

\* The any([...]) of check_completeness over the interface counts.
AnyInterface(interfaces) ==
    \/ interfaces.uart_count > 0
    \/ interfaces.i2c_count > 0
    \/ interfaces.spi_count > 0
    \/ interfaces.usb_count > 0

\* fields_to_check of check_completeness, each as its truth value.
FieldsToCheck(c) ==
    << TruthyStr(c.name), TruthyStr(c.component_type),
       TruthyOpt(c.manufacturer), TruthyOpt(c.part_number),
       TruthyOpt(c.power.voltage_input), TruthyOpt(c.power.current_rating) >>

\* Mutant of check_completeness: every interface count of the any([...])
\* is a checklist item of its own.
check_completeness_per_interface(c) ==
    LET fields == FieldsToCheck(c)
        core   == Cardinality({i \in 1..Len(fields) : fields[i]})
        counts == {"uart_count", "i2c_count", "spi_count", "usb_count"}
        iface  == Cardinality({k \in counts : c.interfaces[k] > 0})
        specs  == IF c.specific_specs # << >> THEN 1 ELSE 0
    IN  Result("check_completeness", TRUE, << >>, << >>,
               core + iface + specs, Len(fields) + Cardinality(counts) + 1)

\* check_completeness returns filled / total; the result keeps the two
\* counters (total is never 0, so the 0.0 branch is not taken).
check_completeness(c) ==
    LET fields == FieldsToCheck(c)
        core   == Cardinality({i \in 1..Len(fields) : fields[i]})
        iface  == IF AnyInterface(c.interfaces) THEN 1 ELSE 0
        specs  == IF c.specific_specs # << >> THEN 1 ELSE 0
    IN  Result("check_completeness", TRUE, << >>, << >>,
               core + iface + specs, Len(fields) + 1 + 1)

(***************************************************************************)
(* Operations on one component, and the inputs they are applied to.        *)
(***************************************************************************)
ValidateComponent ==
    Call(validate_component(component))

CheckCompleteness ==
    Call(check_completeness(component))

NameInputs == {<<>>, <<"M", "1">>}

TypeInputs == {<<>>, <<"m", "o", "t", "o", "r">>, <<"w", "i", "d", "g", "e", "t">>}

SourceInputs == {<<>>, <<"a", ".", "p", "d", "f">>}

VoltageInputs ==
    {None, Some(<<>>), Some(<<"1", "2", "V">>), Some(<<"1", "2", "V", "O", "L", "T", "S">>), Some(<<"3", ".", "3", "v", "d", "c">>),
     Some(<<"V">>), Some(<<"1", "2", "V", "\n">>), Some(<<"1", ".", "2", ".", "3", "V">>)}

VoltageOutputInputs == {None, Some(<<"5", "V">>), Some(<<"5", " ", "V">>)}

CurrentInputs == {None, Some(<<"5", "0", "0", "m", "A">>), Some(<<"2", "a">>), Some(<<"2", "A", "m", "p", "s">>), Some(<<"m", "A">>)}

PowerInputs == {None, Some(<<"1", "0", "W">>), Some(<<"1", ".", "5", "m", "w">>), Some(<<"1", "0">>)}

CapacityInputs == {None, Some(<<"2", "2", "0", "0", "m", "A", "h">>), Some(<<"2", "2", "0", "0", "m", "A">>)}

\* Components that differ in what validate_component reads.
ValidationInputs ==
    { [NewComponent(n, t, s) EXCEPT
         !.power = PowerSpec(vi, vo, cu, pw, ca)] :
      n \in NameInputs, t \in TypeInputs, s \in SourceInputs,
      vi \in VoltageInputs, vo \in VoltageOutputInputs, cu \in CurrentInputs,
      pw \in PowerInputs, ca \in CapacityInputs }

\* Interface records: all counts 0, one count non-zero, all counts non-zero.
InterfaceInputs ==
    {DefaultInterfaceSpec}
    \cup { [DefaultInterfaceSpec EXCEPT ![k] = n] :
           k \in InterfaceKinds, n \in 1..MaxCount }
    \cup { [k \in InterfaceKinds |-> n] : n \in 1..MaxCount }

SpecificSpecsInputs == { << >>, << << <<"w", "e", "i", "g", "h", "t">>, <<"1", "5", "g">> >> >> }

\* Components that differ in what check_completeness reads.
CompletenessInputs ==
    { [NewComponent(n, t, <<"a", ".", "p", "d", "f">>) EXCEPT
         !.manufacturer = m, !.part_number = pn,
         !.power = PowerSpec(vi, None, cu, None, None),
         !.interfaces = ifs, !.specific_specs = ss] :
      n \in NameInputs, t \in {<<>>, <<"m", "o", "t", "o", "r">>},
      m \in {None, Some(<<>>), Some(<<"H", "o", "l", "y", "b", "r", "o">>)}, pn \in {None, Some(<<"P", "H", "4">>)},
      vi \in {None, Some(<<"5", "V">>)}, cu \in {None, Some(<<"2", "A">>)},
      ifs \in InterfaceInputs, ss \in SpecificSpecsInputs }

InitComponent ==
    /\ component \in ValidationInputs \cup CompletenessInputs
    /\ project = NewProject(<<"b", "e", "n", "c", "h">>)
    /\ input_text = <<>>
    /\ input_table = << >>
    /\ result = NoResult
    /\ repeated = FALSE
    /\ Idle

NextComponent == ValidateComponent \/ CheckCompleteness

SpecComponent == InitComponent /\ [][NextComponent]_vars

(***************************************************************************)
(* SpecValidator.                                                          *)
(***************************************************************************)
\* f"Component {idx + 1} ({component.name}): {', '.join(errors)}"
ComponentWarning(idx, c, errors) ==
    [Msg("Component") EXCEPT !.idx = idx, !.name = c.name, !.errors = errors]

\* The essentials dict of _check_essential_drone_components, in its
\* insertion order.
essentials ==
    << << <<"p", "r", "o", "c", "e", "s", "s", "o", "r">>, <<"F", "l", "i", "g", "h", "t", " ", "c", "o", "n", "t", "r", "o", "l", "l", "e", "r", " ", "o", "r", " ", "m", "i", "c", "r", "o", "c", "o", "n", "t", "r", "o", "l", "l", "e", "r">> >>,
       << <<"m", "o", "t", "o", "r">>, <<"M", "o", "t", "o", "r", "s", " ", "f", "o", "r", " ", "p", "r", "o", "p", "u", "l", "s", "i", "o", "n">> >>,
       << <<"e", "s", "c">>, <<"E", "l", "e", "c", "t", "r", "o", "n", "i", "c", " ", "s", "p", "e", "e", "d", " ", "c", "o", "n", "t", "r", "o", "l", "l", "e", "r", "s">> >>,
       << <<"b", "a", "t", "t", "e", "r", "y">>, <<"P", "o", "w", "e", "r", " ", "s", "o", "u", "r", "c", "e">> >>,
       << <<"r", "a", "d", "i", "o">>, <<"R", "e", "m", "o", "t", "e", " ", "c", "o", "n", "t", "r", "o", "l", " ", "r", "e", "c", "e", "i", "v", "e", "r">> >> >>

RECURSIVE EssentialWarnings(_, _)
\* The loop of _check_essential_drone_components from entry k on.
EssentialWarnings(component_types, k) ==
    IF k > Len(essentials) THEN << >>
    ELSE (IF \E i \in 1..Len(component_types) :
                component_types[i] = essentials[k][1]
          THEN << >>
          ELSE << MsgValue("Missing essential component", essentials[k][2]) >>)
         \o EssentialWarnings(component_types, k + 1)

check_essential_drone_components(p) ==
    EssentialWarnings(
        [i \in 1..Len(p.components) |-> p.components[i].component_type], 1)

\* Mutant of IsDroneProject: the keywords matched without lower().
IsDroneProject_case_sensitive(p) ==
    Contains(p.name, <<"d", "r", "o", "n", "e">>) \/ Contains(p.name, <<"q", "u", "a", "d", "c", "o", "p", "t", "e", "r">>)

\* 'drone' in project.name.lower() or 'quadcopter' in project.name.lower()
IsDroneProject(p) ==
    Contains(lower(p.name), <<"d", "r", "o", "n", "e">>) \/ Contains(lower(p.name), <<"q", "u", "a", "d", "c", "o", "p", "t", "e", "r">>)

RECURSIVE ComponentWarnings_first_error(_, _)
\* Mutant of ComponentWarnings: only the first error of a component is
\* carried.
ComponentWarnings_first_error(components, idx) ==
    IF idx >= Len(components) THEN << >>
    ELSE LET c == components[idx + 1]
             r == validate_component(c)
         IN  (IF ~r.ok THEN << ComponentWarning(idx + 1, c, << r.list[1] >>) >>
              ELSE << >>)
             \o ComponentWarnings_first_error(components, idx + 1)

RECURSIVE ComponentWarnings(_, _)
\* The enumerate loop of validate_project from index idx (0-based) on.
ComponentWarnings(components, idx) ==
    IF idx >= Len(components) THEN << >>
    ELSE LET c == components[idx + 1]
             r == validate_component(c)
         IN  (IF ~r.ok THEN << ComponentWarning(idx + 1, c, r.list) >>
              ELSE << >>)
             \o ComponentWarnings(components, idx + 1)

\* Mutant of validate_project: no warning for a project without components.
validate_project_no_empty_check(p) ==
    LET warnings ==
            ComponentWarnings(p.components, 0)
            \o (IF IsDroneProject(p)
                THEN check_essential_drone_components(p) ELSE << >>)
    IN  Result("validate_project", Len(warnings) = 0, warnings, << >>, 0, 0)

validate_project(p) ==
    LET warnings ==
            (IF p.components = << >>
             THEN << Msg("No components found in project") >> ELSE << >>)
            \o ComponentWarnings(p.components, 0)
            \o (IF IsDroneProject(p)
                THEN check_essential_drone_components(p) ELSE << >>)
    IN  Result("validate_project", Len(warnings) = 0, warnings, << >>, 0, 0)

\* re.search(r'(\d+\.?\d*)', s): the first and last position of the
\* leftmost match, << >> when s holds no digit.
SearchNumber(s) ==
    IF \E i \in 1..Len(s) : IsDigit(s[i])
    THEN LET i == CHOOSE i \in 1..Len(s) :
                    /\ IsDigit(s[i])
                    /\ \A j \in 1..(i - 1) : ~IsDigit(s[j])
         IN  << i, NumberEndAt(s, i) - 1 >>
    ELSE << >>

RECURSIVE IntVal(_)
\* The value of a string of decimal digits.
IntVal(digits) ==
    IF digits = << >> THEN 0
    ELSE 10 * IntVal(SubSeq(digits, 1, Len(digits) - 1))
         + DigitVal(digits[Len(digits)])

RECURSIVE StripZeros(_)
\* A digit string without its trailing zeros.
StripZeros(digits) ==
    IF digits # << >> /\ digits[Len(digits)] = "0"
    THEN StripZeros(SubSeq(digits, 1, Len(digits) - 1))
    ELSE digits

\* Mutant of float: the text itself, so that 5 and 5.0 differ.
float_as_text(text) == << 0, text >>

\* float(text) of a text \d+\.?\d*: the number as the pair of its integer
\* part and its fraction digits, so that equal pairs are equal floats.
float(text) ==
    LET a == DigitsEnd(text, 1)
    IN  << IntVal(SubSeq(text, 1, a - 1)),
           StripZeros(SubSeq(text, a + 1, Len(text))) >>

\* Whether the voltage loop of check_power_compatibility appends an entry
\* for the component.
HasVoltage(c) ==
    TruthyOpt(c.power.voltage_input)
    /\ SearchNumber(c.power.voltage_input[1]) # << >>

\* The (comp.name, float(match.group(1))) the loop appends.
VoltageEntry(c) ==
    LET s == c.power.voltage_input[1]
        m == SearchNumber(s)
    IN  << c.name, float(SubSeq(s, m[1], m[2])) >>

\* The number of distinct voltage levels above which
\* check_power_compatibility reports.
VoltageLevels == 3

\* The total current (A) above which check_power_compatibility reports.
CurrentLimit == 50

\* Mutant of check_power_compatibility: the current compared with >=.
check_power_compatibility_ge(p) ==
    LET with     == SelectSeq(p.components, HasVoltage)
        voltages == [i \in 1..Len(with) |-> VoltageEntry(with[i])]
        unique_voltages == {voltages[i][2] : i \in 1..Len(voltages)}
        batteries == SelectSeq(p.components,
                               LAMBDA c : c.component_type = <<"b", "a", "t", "t", "e", "r", "y">>)
        total_current == DictGet(p.total_power_budget, "total_current_a", 0)
        issues ==
            (IF Len(voltages) > 1 /\ Cardinality(unique_voltages) > VoltageLevels
             THEN << [Msg("Multiple voltage requirements detected")
                        EXCEPT !.values = unique_voltages] >>
             ELSE << >>)
            \o (IF batteries # << >> /\ total_current >= CurrentLimit
                THEN << [Msg("High total current draw")
                           EXCEPT !.amount = total_current] >>
                ELSE << >>)
    IN  Result("check_power_compatibility", TRUE, issues, << >>, 0, 0)

check_power_compatibility(p) ==
    LET with     == SelectSeq(p.components, HasVoltage)
        voltages == [i \in 1..Len(with) |-> VoltageEntry(with[i])]
        unique_voltages == {voltages[i][2] : i \in 1..Len(voltages)}
        batteries == SelectSeq(p.components,
                               LAMBDA c : c.component_type = <<"b", "a", "t", "t", "e", "r", "y">>)
        total_current == DictGet(p.total_power_budget, "total_current_a", 0)
        issues ==
            (IF Len(voltages) > 1 /\ Cardinality(unique_voltages) > VoltageLevels
             THEN << [Msg("Multiple voltage requirements detected")
                        EXCEPT !.values = unique_voltages] >>
             ELSE << >>)
            \o (IF batteries # << >> /\ total_current > CurrentLimit
                THEN << [Msg("High total current draw")
                           EXCEPT !.amount = total_current] >>
                ELSE << >>)
    IN  Result("check_power_compatibility", TRUE, issues, << >>, 0, 0)

RECURSIVE StrItems(_)
\* The items of str(dict): 'k': 'v' joined by ", ".
StrItems(d) ==
    IF d = << >> THEN << >>
    ELSE <<"'">> \o d[1][1] \o <<"'", ":", " ", "'">> \o d[1][2] \o <<"'">>
         \o (IF Len(d) > 1 THEN <<",", " ">> ELSE << >>)
         \o StrItems(Tail(d))

\* str(d) of a dict of str to str (keys and values without quotes or
\* backslashes).
StrDict(d) == <<"{">> \o StrItems(d) \o <<"}">>

\* 'uart' in str(comp.specific_specs).lower()
Mentions(c, protocol) == Contains(lower(StrDict(c.specific_specs)), protocol)

\* Mutant of IsPeripheral: every component that is no controller counts.
IsPeripheral_any(c) == c.component_type \notin {<<"p", "r", "o", "c", "e", "s", "s", "o", "r">>, <<"c", "o", "n", "t", "r", "o", "l", "l", "e", "r">>}

IsPeripheral(c) == c.component_type \in {<<"s", "e", "n", "s", "o", "r">>, <<"r", "a", "d", "i", "o">>, <<"c", "a", "m", "e", "r", "a">>}

\* required_<protocol> after the loop over the components.
Required(components, protocol) ==
    Cardinality({i \in 1..Len(components) :
                   IsPeripheral(components[i])
                   /\ Mentions(components[i], protocol)})

\* One availability check: f"Insufficient <label> ports: need .., have .."
Shortfall(label, need, have) ==
    IF need > have
    THEN << [Msg("Insufficient ports") EXCEPT
               !.value = label, !.need = need, !.have = have] >>
    ELSE << >>

check_interface_availability(p) ==
    LET processors ==
            SelectSeq(p.components,
                      LAMBDA c : c.component_type \in {<<"p", "r", "o", "c", "e", "s", "s", "o", "r">>, <<"c", "o", "n", "t", "r", "o", "l", "l", "e", "r">>})
    IN  IF processors = << >>
        THEN Result("check_interface_availability", TRUE,
                    << Msg("No processor/controller found to connect peripherals") >>,
                    << >>, 0, 0)
        ELSE LET main_processor == processors[1]
                 issues ==
                     Shortfall(<<"U", "A", "R", "T">>, Required(p.components, <<"u", "a", "r", "t">>),
                               main_processor.interfaces.uart_count)
                     \o Shortfall(<<"I", "2", "C">>, Required(p.components, <<"i", "2", "c">>),
                                  main_processor.interfaces.i2c_count)
                     \o Shortfall(<<"S", "P", "I">>, Required(p.components, <<"s", "p", "i">>),
                                  main_processor.interfaces.spi_count)
             IN  Result("check_interface_availability", TRUE, issues,
                        << >>, 0, 0)

(***************************************************************************)
(* Operations on the project.  result is what the latest call returned;    *)
(* add_component returns None.                                             *)
(***************************************************************************)
\* Mutant of add_component: the component is put in front of the others.
add_component_in_front(p, c) ==
    [p EXCEPT !.components = << c >> \o @]

\* self.components.append(component)
add_component(p, c) ==
    [p EXCEPT !.components = Append(@, c)]

\* Project.add_component(c), c drawn from pool, for a project of fewer
\* than max components.
AddComponent(pool, max) ==
    /\ Len(project.components) < max
    /\ \E c \in pool :
         /\ project' = add_component(project, c)
         /\ added' = Append(added, c)
    /\ result' = NoResult
    /\ repeated' = FALSE
    /\ UNCHANGED <<component, input_text, input_table, extracted_data,
                   chunk_size, agents>>

ValidateProject ==
    Call(validate_project(project))

CheckPowerCompatibility ==
    Call(check_power_compatibility(project))

CheckInterfaceAvailability ==
    Call(check_interface_availability(project))

(***************************************************************************)
(* validate_project: projects of valid and invalid components of the       *)
(* essential types, under names with and without a domain keyword.         *)
(***************************************************************************)
ProjectNames == {<<"Q", "u", "a", "d", "c", "o", "p", "t", "e", "r">>, <<"F", "P", "V", " ", "D", "R", "O", "N", "E">>, <<"q", "u", "a", "d", " ", "r", "o", "v", "e", "r">>}

WithVoltage(c, v) == [c EXCEPT !.power.voltage_input = Some(v)]

ProjectPool ==
    { NewComponent(<<"P", "i", "x", "h", "a", "w", "k">>, <<"p", "r", "o", "c", "e", "s", "s", "o", "r">>, <<"p", ".", "p", "d", "f">>),
      WithVoltage(NewComponent(<<"M", "1">>, <<"m", "o", "t", "o", "r">>, <<"m", ".", "p", "d", "f">>), <<"1", "2", "V">>),
      NewComponent(<<"E", "1">>, <<"e", "s", "c">>, <<"e", ".", "p", "d", "f">>),
      NewComponent(<<"B", "1">>, <<"b", "a", "t", "t", "e", "r", "y">>, <<"b", ".", "p", "d", "f">>),
      NewComponent(<<"R", "1">>, <<"r", "a", "d", "i", "o">>, <<"r", ".", "p", "d", "f">>),
      [WithVoltage(NewComponent(<<"X", "1">>, <<"P", "r", "o", "c", "e", "s", "s", "o", "r">>, <<>>), <<"1", "2", "V", "O", "L", "T", "S">>)
         EXCEPT !.power.capacity = Some(<<"2", "2", "0", "0">>) ] }

InitProject ==
    /\ \E n \in ProjectNames : project = NewProject(n)
    /\ component = NewComponent(<<"M", "1">>, <<"m", "o", "t", "o", "r">>, <<"m", ".", "p", "d", "f">>)
    /\ input_text = <<>>
    /\ input_table = << >>
    /\ result = NoResult
    /\ repeated = FALSE
    /\ Idle

AddProjectComponent == AddComponent(ProjectPool, MaxProjectComponents)

NextProject == AddProjectComponent \/ ValidateProject

SpecProject == InitProject /\ [][NextProject]_vars

(***************************************************************************)
(* check_power_compatibility: projects of components that differ in type   *)
(* and input voltage, under budgets with and without a total current.      *)
(***************************************************************************)
BudgetInputs ==
    { << >>,
      << << "estimated_power_w", 600 >> >>,
      << << "total_current_a", CurrentLimit >>, << "estimated_power_w", 600 >> >>,
      << << "total_current_a", CurrentLimit + 1 >> >> }

PowerPool ==
    { NewComponent(<<"B", "0">>, <<"b", "a", "t", "t", "e", "r", "y">>, <<"b", ".", "p", "d", "f">>),
      WithVoltage(NewComponent(<<"B", "1">>, <<"b", "a", "t", "t", "e", "r", "y">>, <<"b", ".", "p", "d", "f">>), <<"1", "2", "V">>),
      WithVoltage(NewComponent(<<"M", "1">>, <<"m", "o", "t", "o", "r">>, <<"m", ".", "p", "d", "f">>), <<"5", "V">>),
      WithVoltage(NewComponent(<<"M", "2">>, <<"m", "o", "t", "o", "r">>, <<"m", ".", "p", "d", "f">>), <<"5", ".", "0", "V">>),
      WithVoltage(NewComponent(<<"M", "3">>, <<"m", "o", "t", "o", "r">>, <<"m", ".", "p", "d", "f">>), <<"3", ".", "3", "V">>),
      WithVoltage(NewComponent(<<"M", "4">>, <<"m", "o", "t", "o", "r">>, <<"m", ".", "p", "d", "f">>), <<"D", "C", " ", "2", "4", ".", "V">>),
      WithVoltage(NewComponent(<<"M", "5">>, <<"m", "o", "t", "o", "r">>, <<"m", ".", "p", "d", "f">>), <<"V", "C", "C">>) }

InitPower ==
    /\ \E b \in BudgetInputs :
         project = [NewProject(<<"r", "o", "v", "e", "r">>) EXCEPT !.total_power_budget = b]
    /\ component = NewComponent(<<"M", "1">>, <<"m", "o", "t", "o", "r">>, <<"m", ".", "p", "d", "f">>)
    /\ input_text = <<>>
    /\ input_table = << >>
    /\ result = NoResult
    /\ repeated = FALSE
    /\ Idle

AddPowerComponent == AddComponent(PowerPool, MaxPowerComponents)

NextPower == AddPowerComponent \/ CheckPowerCompatibility

SpecPower == InitPower /\ [][NextPower]_vars

(***************************************************************************)
(* check_interface_availability: projects of controllers with different    *)
(* interface counts and of components whose specific_specs mention the     *)
(* protocols or not.                                                       *)
(***************************************************************************)
WithInterfaces(c, uart, i2c, spi) ==
    [c EXCEPT !.interfaces.uart_count = uart, !.interfaces.i2c_count = i2c,
              !.interfaces.spi_count = spi]

WithSpecs(c, specs) == [c EXCEPT !.specific_specs = specs]

IfacePool ==
    { WithInterfaces(NewComponent(<<"P", "1">>, <<"p", "r", "o", "c", "e", "s", "s", "o", "r">>, <<"p", ".", "p", "d", "f">>), 0, 1, 0),
      WithInterfaces(NewComponent(<<"P", "2">>, <<"c", "o", "n", "t", "r", "o", "l", "l", "e", "r">>, <<"p", ".", "p", "d", "f">>), 1, 2, 1),
      WithSpecs(NewComponent(<<"S", "1">>, <<"s", "e", "n", "s", "o", "r">>, <<"s", ".", "p", "d", "f">>),
                << << <<"i", "n", "t", "e", "r", "f", "a", "c", "e">>, <<"I", "2", "C">> >> >>),
      WithSpecs(NewComponent(<<"R", "1">>, <<"r", "a", "d", "i", "o">>, <<"r", ".", "p", "d", "f">>),
                << << <<"U", "A", "R", "T", " ", "b", "a", "u", "d">>, <<"5", "7", "6", "0", "0">> >>, << <<"p", "o", "r", "t">>, <<"u", "a", "r", "t", "2">> >> >>),
      WithSpecs(NewComponent(<<"C", "1">>, <<"c", "a", "m", "e", "r", "a">>, <<"c", ".", "p", "d", "f">>),
                << << <<"b", "u", "s">>, <<"S", "P", "I", "/", "i", "2", "c">> >> >>),
      WithSpecs(NewComponent(<<"S", "2">>, <<"s", "e", "n", "s", "o", "r">>, <<"s", ".", "p", "d", "f">>),
                << << <<"u">>, <<"a", "r", "t">> >> >>),
      WithSpecs(NewComponent(<<"M", "1">>, <<"m", "o", "t", "o", "r">>, <<"m", ".", "p", "d", "f">>),
                << << <<"p", "r", "o", "t", "o", "c", "o", "l">>, <<"U", "A", "R", "T">> >> >>) }

InitIface ==
    /\ project = NewProject(<<"r", "o", "v", "e", "r">>)
    /\ component = NewComponent(<<"M", "1">>, <<"m", "o", "t", "o", "r">>, <<"m", ".", "p", "d", "f">>)
    /\ input_text = <<>>
    /\ input_table = << >>
    /\ result = NoResult
    /\ repeated = FALSE
    /\ Idle

AddIfaceComponent == AddComponent(IfacePool, MaxIfaceComponents)

NextIface == AddIfaceComponent \/ CheckInterfaceAvailability

SpecIface == InitIface /\ [][NextIface]_vars

(***************************************************************************)
(* SpecificationParser: the regular expressions of its pattern tables, as  *)
(* re.search evaluates them.                                               *)
(***************************************************************************)
\* \s
IsSpace(c) == c \in {" ", "\t", "\n", "\r", "\f"}

\* \w
IsWord(c) ==
    \/ IsDigit(c)
    \/ c = "_"
    \/ \E i \in 1..Len(UpperChars) : UpperChars[i] = c \/ LowerChars[i] = c

RECURSIVE SpaceEnd(_, _)
\* The position after the longest run of whitespace that starts at
\* position i (the greedy \s* of re).
SpaceEnd(s, i) ==
    IF i <= Len(s) /\ IsSpace(s[i]) THEN SpaceEnd(s, i + 1) ELSE i

\* str.strip()
strip(s) ==
    IF \A i \in 1..Len(s) : IsSpace(s[i]) THEN << >>
    ELSE LET a == CHOOSE i \in 1..Len(s) :
                     ~IsSpace(s[i]) /\ \A j \in 1..(i - 1) : IsSpace(s[j])
             b == CHOOSE i \in 1..Len(s) :
                     ~IsSpace(s[i]) /\ \A j \in (i + 1)..Len(s) : IsSpace(s[j])
         IN  SubSeq(s, a, b)

\* A literal matched at position i, with or without re.IGNORECASE.
LiteralMatch(s, i, lit, ignorecase) ==
    /\ i + Len(lit) - 1 <= Len(s)
    /\ IF ignorecase THEN LiteralAt(s, i, lit)
       ELSE SubSeq(s, i, i + Len(lit) - 1) = lit

\* A pattern of a pattern table:
\*     -?  \d+  (\.?\d*)  \s*  [-\s]?  (u1|u2|...)  (?!\w)  \s*\d+
\* with neg: the pattern begins with -? ; frac: the number may have a
\* fraction; dash: [-\s]? follows the \s* ; units: the alternatives in the
\* order re tries them; look: the pattern ends with (?!\w); tail: \s*(\d+)
\* follows the unit.
Pattern(neg, frac, dash, units, look, tail) ==
    [neg |-> neg, frac |-> frac, dash |-> dash, units |-> units,
     look |-> look, tail |-> tail]

\* The pattern number \s* (u1|u2|...), the commonest shape.
NumberUnit(frac, units) == Pattern(FALSE, frac, FALSE, units, FALSE, FALSE)

\* What follows the number and its separator, tried at position i with the
\* alternative u: the position after the match, 0 for none.
UnitEnd(s, i, pat, u, ignorecase) ==
    LET e == i + Len(u)
        t == SpaceEnd(s, e)
    IN  IF ~LiteralMatch(s, i, u, ignorecase) THEN 0
        ELSE IF pat.look /\ e <= Len(s) /\ IsWord(s[e]) THEN 0
        ELSE IF pat.tail
             THEN (IF DigitsEnd(s, t) > t THEN DigitsEnd(s, t) ELSE 0)
        ELSE e

\* The pattern tried at position i: the position after the match, 0 for
\* none.  Every backtracking choice of the number and of the whitespace
\* ends where the greedy one does or fails, and the alternatives are tried
\* in order.
MatchEnd(s, i, pat, ignorecase) ==
    LET a == IF pat.neg /\ i <= Len(s) /\ s[i] = "-" THEN i + 1 ELSE i
        b == IF pat.frac THEN NumberEndAt(s, a)
             ELSE (IF DigitsEnd(s, a) = a THEN 0 ELSE DigitsEnd(s, a))
        w == SpaceEnd(s, b)
        d == IF pat.dash /\ w <= Len(s) /\ s[w] = "-" THEN w + 1 ELSE w
        ok == {k \in 1..Len(pat.units) :
                 UnitEnd(s, d, pat, pat.units[k], ignorecase) # 0}
    IN  IF b = 0 \/ ok = {} THEN 0
        ELSE UnitEnd(s, d, pat,
                     pat.units[CHOOSE k \in ok : \A m \in ok : k <= m],
                     ignorecase)

\* re.search(pattern, s[, re.IGNORECASE]): the first and the last position
\* of the leftmost match, << >> for None.
Search(s, pat, ignorecase) ==
    LET starts == {i \in 1..Len(s) : MatchEnd(s, i, pat, ignorecase) # 0}
    IN  IF starts = {} THEN << >>
        ELSE LET i == CHOOSE i \in starts : \A j \in starts : i <= j
             IN  << i, MatchEnd(s, i, pat, ignorecase) - 1 >>

\* PATTERNS['voltage']
VoltagePattern ==
    Pattern(FALSE, TRUE, FALSE, << <<"V", "D", "C">>, <<"V", "A", "C">>, <<"V">> >>, TRUE, FALSE)

\* The PATTERNS dict, in its insertion order.
PATTERNS ==
    << << <<"v", "o", "l", "t", "a", "g", "e">>, VoltagePattern >>,
       << <<"c", "u", "r", "r", "e", "n", "t">>,
          Pattern(FALSE, TRUE, FALSE, << <<"m", "A">>, <<"A">> >>, TRUE, FALSE) >>,
       << <<"p", "o", "w", "e", "r">>,
          Pattern(FALSE, TRUE, FALSE, << <<"m", "W">>, <<"W">> >>, TRUE, FALSE) >>,
       << <<"f", "r", "e", "q", "u", "e", "n", "c", "y">>,
          NumberUnit(TRUE, << <<"M", "H", "z">>, <<"G", "H", "z">>, <<"H", "z">>, <<"K", "H", "z">> >>) >>,
       << <<"c", "a", "p", "a", "c", "i", "t", "y">>, NumberUnit(TRUE, << <<"m", "A", "h">> >>) >>,
       << <<"r", "e", "s", "o", "l", "u", "t", "i", "o", "n">>,
          Pattern(FALSE, FALSE, FALSE, << <<"x">>, <<"X">>, <<"×">> >>, FALSE, TRUE) >>,
       << <<"m", "e", "g", "a", "p", "i", "x", "e", "l">>, NumberUnit(TRUE, << <<"M", "P">> >>) >>,
       << <<"f", "p", "s">>, NumberUnit(FALSE, << <<"f", "p", "s">> >>) >>,
       << <<"k", "v", "_", "r", "a", "t", "i", "n", "g">>, NumberUnit(FALSE, << <<"K", "V">> >>) >>,
       << <<"c", "l", "o", "c", "k", "_", "s", "p", "e", "e", "d">>, NumberUnit(TRUE, << <<"M", "H", "z">>, <<"G", "H", "z">> >>) >>,
       << <<"m", "e", "m", "o", "r", "y">>, NumberUnit(TRUE, << <<"K", "B">>, <<"M", "B">>, <<"G", "B">> >>) >>,
       << <<"t", "e", "m", "p", "e", "r", "a", "t", "u", "r", "e">>,
          Pattern(TRUE, TRUE, FALSE, << <<"°", "C">>, <<"C">> >>, FALSE, FALSE) >>,
       << <<"w", "e", "i", "g", "h", "t">>, NumberUnit(TRUE, << <<"g">>, <<"k", "g">>, <<"o", "z">>, <<"l", "b">> >>) >>,
       << <<"r", "p", "m">>, NumberUnit(FALSE, << <<"R", "P", "M">> >>) >>,
       << <<"c", "h", "a", "n", "n", "e", "l", "s">>,
          Pattern(FALSE, FALSE, TRUE, << <<"c", "h">>, <<"c", "h", "a", "n", "n", "e", "l">> >>, FALSE, FALSE) >> >>

\* match.group(0).strip() if match else None
GroupStripped(s, m) ==
    IF m = << >> THEN None ELSE Some(strip(SubSeq(s, m[1], m[2])))

\* Mutant of extract_pattern: the search distinguishes the letter cases.
extract_pattern_cased(text, pattern_name) ==
    IF \E k \in 1..Len(PATTERNS) : PATTERNS[k][1] = pattern_name
    THEN GroupStripped(text,
                       Search(text, DictGet(PATTERNS, pattern_name, None), FALSE))
    ELSE None

\* _extract_pattern(text, pattern_name)
extract_pattern(text, pattern_name) ==
    IF \E k \in 1..Len(PATTERNS) : PATTERNS[k][1] = pattern_name
    THEN GroupStripped(text,
                       Search(text, DictGet(PATTERNS, pattern_name, None), TRUE))
    ELSE None

RECURSIVE ExtractFrom(_, _)
\* The loop of extract_all_specs from entry k of PATTERNS on: the (name,
\* value) pairs in the order they enter the dict.
ExtractFrom(text, k) ==
    IF k > Len(PATTERNS) THEN << >>
    ELSE LET value == extract_pattern(text, PATTERNS[k][1])
         IN  (IF TruthyOpt(value) THEN << << PATTERNS[k][1], value[1] >> >>
              ELSE << >>)
             \o ExtractFrom(text, k + 1)

extract_all_specs(text) == ExtractFrom(text, 1)

(***************************************************************************)
(* SpecificationParser.identify_component_type.                            *)
(***************************************************************************)
\* The COMPONENT_TYPE_KEYWORDS dict, in its insertion order.
COMPONENT_TYPE_KEYWORDS ==
    << << <<"m", "o", "t", "o", "r">>,
          << <<"m", "o", "t", "o", "r">>, <<"b", "r", "u", "s", "h", "l", "e", "s", "s">>, <<"s", "e", "r", "v", "o">>, <<"a", "c", "t", "u", "a", "t", "o", "r">>, <<"b", "l", "d", "c">> >> >>,
       << <<"s", "e", "n", "s", "o", "r">>,
          << <<"s", "e", "n", "s", "o", "r">>, <<"i", "m", "u">>, <<"g", "p", "s">>, <<"a", "c", "c", "e", "l", "e", "r", "o", "m", "e", "t", "e", "r">>, <<"g", "y", "r", "o">>,
             <<"g", "y", "r", "o", "s", "c", "o", "p", "e">>, <<"b", "a", "r", "o", "m", "e", "t", "e", "r">>, <<"m", "a", "g", "n", "e", "t", "o", "m", "e", "t", "e", "r">>, <<"c", "o", "m", "p", "a", "s", "s">>,
             <<"l", "i", "d", "a", "r">>, <<"u", "l", "t", "r", "a", "s", "o", "n", "i", "c">> >> >>,
       << <<"c", "a", "m", "e", "r", "a">>,
          << <<"c", "a", "m", "e", "r", "a">>, <<"l", "e", "n", "s">>, <<"m", "e", "g", "a", "p", "i", "x", "e", "l">>, <<"f", "p", "s">>, <<"r", "e", "s", "o", "l", "u", "t", "i", "o", "n">>,
             <<"c", "m", "o", "s">>, <<"c", "c", "d">> >> >>,
       << <<"p", "r", "o", "c", "e", "s", "s", "o", "r">>,
          << <<"m", "i", "c", "r", "o", "c", "o", "n", "t", "r", "o", "l", "l", "e", "r">>, <<"m", "c", "u">>, <<"p", "r", "o", "c", "e", "s", "s", "o", "r">>, <<"c", "p", "u">>, <<"a", "r", "m">>,
             <<"e", "s", "p", "3", "2">>, <<"s", "t", "m", "3", "2">>, <<"a", "r", "d", "u", "i", "n", "o">>, <<"c", "o", "r", "t", "e", "x">>,
             <<"f", "l", "i", "g", "h", "t", " ", "c", "o", "n", "t", "r", "o", "l", "l", "e", "r">> >> >>,
       << <<"b", "a", "t", "t", "e", "r", "y">>,
          << <<"b", "a", "t", "t", "e", "r", "y">>, <<"l", "i", "p", "o">>, <<"l", "i", "-", "p", "o">>, <<"l", "i", "-", "i", "o", "n">>, <<"l", "i", "t", "h", "i", "u", "m">>, <<"m", "a", "h">>,
             <<"c", "e", "l", "l">> >> >>,
       << <<"e", "s", "c">>, << <<"e", "s", "c">>, <<"s", "p", "e", "e", "d", " ", "c", "o", "n", "t", "r", "o", "l", "l", "e", "r">>, <<"e", "l", "e", "c", "t", "r", "o", "n", "i", "c", " ", "s", "p", "e", "e", "d">> >> >>,
       << <<"r", "a", "d", "i", "o">>,
          << <<"r", "e", "c", "e", "i", "v", "e", "r">>, <<"t", "r", "a", "n", "s", "m", "i", "t", "t", "e", "r">>, <<"r", "a", "d", "i", "o">>, <<"t", "e", "l", "e", "m", "e", "t", "r", "y">>, <<"r", "c">>,
             <<"r", "e", "m", "o", "t", "e", " ", "c", "o", "n", "t", "r", "o", "l">> >> >>,
       << <<"p", "o", "w", "e", "r">>,
          << <<"r", "e", "g", "u", "l", "a", "t", "o", "r">>, <<"v", "o", "l", "t", "a", "g", "e", " ", "r", "e", "g", "u", "l", "a", "t", "o", "r">>, <<"b", "u", "c", "k">>, <<"b", "o", "o", "s", "t">>, <<"l", "d", "o">>,
             <<"p", "d", "b">>, <<"p", "o", "w", "e", "r", " ", "d", "i", "s", "t", "r", "i", "b", "u", "t", "i", "o", "n">> >> >> >>

\* sum(1 for kw in keywords if kw in text_lower)
KeywordScore(text_lower, keywords) ==
    Cardinality({k \in 1..Len(keywords) : Contains(text_lower, keywords[k])})

\* Mutant of BestType: the last of the largest items.
BestType_last(scores) ==
    LET scored == {k \in 1..Len(scores) : scores[k] > 0}
    IN  CHOOSE k \in scored :
           \A m \in scored :
              scores[m] < scores[k] \/ (scores[m] = scores[k] /\ m <= k)

\* max(type_scores.items(), key=lambda x: x[1]) over the entries of
\* score > 0, as the position in COMPONENT_TYPE_KEYWORDS: max returns the
\* first of the largest items.
BestType(scores) ==
    LET scored == {k \in 1..Len(scores) : scores[k] > 0}
    IN  CHOOSE k \in scored :
           \A m \in scored :
              scores[m] < scores[k] \/ (scores[m] = scores[k] /\ k <= m)

\* The type identify_component_type returns, None for no type.
IdentifiedType(text) ==
    LET text_lower == lower(text)
        scores == [k \in 1..Len(COMPONENT_TYPE_KEYWORDS) |->
                     KeywordScore(text_lower, COMPONENT_TYPE_KEYWORDS[k][2])]
    IN  IF \E k \in 1..Len(scores) : scores[k] > 0
        THEN Some(COMPONENT_TYPE_KEYWORDS[BestType(scores)][1])
        ELSE None

identify_component_type(text) ==
    Returned("identify_component_type", IdentifiedType(text))

(***************************************************************************)
(* SpecificationParser.parse_power_specs.                                  *)
(***************************************************************************)
\* [\s\w:]
IsContextChar(c) == IsSpace(c) \/ IsWord(c) \/ c = ":"

\* The pairs (i, j) keyword[\s\w:]*?(voltage) can match at under
\* re.IGNORECASE: the keyword begins at position i and the voltage at
\* position j.
ContextCandidates(text, keyword) ==
    {p \in UNION {{<< i, j >> : j \in (i + Len(keyword))..Len(text)} :
                    i \in {i \in 1..Len(text) : LiteralAt(text, i, keyword)}} :
       /\ \A m \in (p[1] + Len(keyword))..(p[2] - 1) : IsContextChar(text[m])
       /\ MatchEnd(text, p[2], VoltagePattern, TRUE) # 0}

\* The match re.search returns: of the leftmost keyword that a voltage
\* follows, up to the nearest such voltage ([\s\w:]*? is lazy).
LeftmostNearest(candidates) ==
    CHOOSE p \in candidates :
       \A q \in candidates :
          p[1] < q[1] \/ (p[1] = q[1] /\ p[2] <= q[2])

\* match.group(0) for the candidate, kept as a one-element sequence.
GroupOf(text, p) ==
    << SubSeq(text, p[1], MatchEnd(text, p[2], VoltagePattern, TRUE) - 1) >>

\* re.search(f'{keyword}[\\s\\w:]*?({PATTERNS["voltage"]})', text,
\* re.IGNORECASE).group(0), << >> for no match.
MatchOf(text, candidates) ==
    IF candidates = {} THEN << >>
    ELSE GroupOf(text, LeftmostNearest(candidates))

ContextMatch(text, keyword) ==
    MatchOf(text, ContextCandidates(text, keyword))

\* re.search(self.PATTERNS['voltage'], match.group(0)) and what the loop
\* returns for it, None when the loop goes on.  This search is made
\* without re.IGNORECASE.
VoltageOf(match) ==
    IF match = << >> THEN None
    ELSE GroupStripped(match[1], Search(match[1], VoltagePattern, FALSE))

\* One round of the loop of _extract_contextual_voltage.
KeywordVoltage(text, keyword) == VoltageOf(ContextMatch(text, keyword))

\* The voltage the loop returns: that of this round, or that of the rounds
\* after it.
FirstFound(found, later) == IF found # None THEN found ELSE later

RECURSIVE ContextualFrom(_, _, _)
\* The loop of _extract_contextual_voltage from keyword k on.
ContextualFrom(text, context_keywords, k) ==
    IF k > Len(context_keywords) THEN None
    ELSE FirstFound(KeywordVoltage(text, context_keywords[k]),
                    ContextualFrom(text, context_keywords, k + 1))

\* _extract_contextual_voltage(text, context_keywords)
extract_contextual_voltage(text, context_keywords) ==
    ContextualFrom(text, context_keywords, 1)

InputKeywords == << <<"i", "n", "p", "u", "t">>, <<"s", "u", "p", "p", "l", "y">>, <<"v", "i", "n">> >>

OutputKeywords == << <<"o", "u", "t", "p", "u", "t">>, <<"v", "o", "u", "t">> >>

\* Mutant of WithFallback: the first voltage mention is used whenever no
\* input voltage was found in context.
WithFallback_input_only(text, voltage_input, voltage_output) ==
    PowerSpec(IF ~TruthyOpt(voltage_input)
              THEN extract_pattern(text, <<"v", "o", "l", "t", "a", "g", "e">>) ELSE voltage_input,
              voltage_output,
              extract_pattern(text, <<"c", "u", "r", "r", "e", "n", "t">>),
              extract_pattern(text, <<"p", "o", "w", "e", "r">>),
              extract_pattern(text, <<"c", "a", "p", "a", "c", "i", "t", "y">>))

\* The PowerSpec parse_power_specs returns for the two voltages found in
\* context: without either, the first voltage mention is the input voltage.
WithFallback(text, voltage_input, voltage_output) ==
    PowerSpec(IF ~TruthyOpt(voltage_input) /\ ~TruthyOpt(voltage_output)
              THEN extract_pattern(text, <<"v", "o", "l", "t", "a", "g", "e">>) ELSE voltage_input,
              voltage_output,
              extract_pattern(text, <<"c", "u", "r", "r", "e", "n", "t">>),
              extract_pattern(text, <<"p", "o", "w", "e", "r">>),
              extract_pattern(text, <<"c", "a", "p", "a", "c", "i", "t", "y">>))

ParsedPower(text) ==
    WithFallback(text,
                 extract_contextual_voltage(text, InputKeywords),
                 extract_contextual_voltage(text, OutputKeywords))

parse_power_specs(text) == Returned("parse_power_specs", ParsedPower(text))

(***************************************************************************)
(* SpecificationParser.parse_interfaces.                                   *)
(***************************************************************************)
\* The INTERFACE_PATTERNS dict, in its insertion order: the interface and
\* the name its pattern (\d+)\s*[×xX]?\s*NAME ends with.
INTERFACE_PATTERNS ==
    << << "uart", <<"U", "A", "R", "T">> >>, << "i2c", <<"I", "2", "C">> >>, << "spi", <<"S", "P", "I">> >>,
       << "can", <<"C", "A", "N">> >>, << "usb", <<"U", "S", "B">> >>, << "gpio", <<"G", "P", "I", "O">> >>,
       << "pwm", <<"P", "W", "M">> >> >>

\* (\d+)\s*[×xX]?\s*NAME tried at position i under re.IGNORECASE: whether
\* it matches.
InterfaceMatchAt(s, i, name) ==
    LET a == DigitsEnd(s, i)
        w == SpaceEnd(s, a)
        x == IF w <= Len(s) /\ s[w] \in {"×", "x", "X"} THEN w + 1 ELSE w
    IN  a > i /\ LiteralAt(s, SpaceEnd(s, x), name)

\* Mutant of InterfaceCount: the rightmost match.
InterfaceCount_last(s, name) ==
    LET starts == {i \in 1..Len(s) :
                     /\ InterfaceMatchAt(s, i, name)
                     /\ (i = 1 \/ ~IsDigit(s[i - 1]))}
    IN  IF starts = {} THEN << >>
        ELSE LET i == CHOOSE i \in starts : \A j \in starts : j <= i
             IN  << IntVal(SubSeq(s, i, DigitsEnd(s, i) - 1)) >>

\* int(match.group(1)) of re.search(pattern, text, re.IGNORECASE), << >>
\* for no match.
InterfaceCount(s, name) ==
    LET starts == {i \in 1..Len(s) : InterfaceMatchAt(s, i, name)}
    IN  IF starts = {} THEN << >>
        ELSE LET i == CHOOSE i \in starts : \A j \in starts : i <= j
             IN  << IntVal(SubSeq(s, i, DigitsEnd(s, i) - 1)) >>

RECURSIVE InterfacesFrom(_, _, _)
\* The loop of parse_interfaces from entry k of INTERFACE_PATTERNS on.
InterfacesFrom(text, interfaces, k) ==
    IF k > Len(INTERFACE_PATTERNS) THEN interfaces
    ELSE LET count == InterfaceCount(text, INTERFACE_PATTERNS[k][2])
             field == INTERFACE_PATTERNS[k][1] \o "_count"
         IN  InterfacesFrom(text,
                            IF count = << >> THEN interfaces
                            ELSE [interfaces EXCEPT ![field] = count[1]],
                            k + 1)

parse_interfaces(text) ==
    Returned("parse_interfaces", InterfacesFrom(text, DefaultInterfaceSpec, 1))

(***************************************************************************)
(* SpecificationParser.parse_table_specs.                                  *)
(***************************************************************************)
\* d[key] = value on a dict kept as a sequence of pairs: a key already in
\* the dict keeps its place.
DictSet(d, key, value) ==
    IF \E i \in 1..Len(d) : d[i][1] = key
    THEN [i \in 1..Len(d) |-> IF d[i][1] = key THEN << key, value >> ELSE d[i]]
    ELSE Append(d, << key, value >>)

RECURSIVE DictUpdate(_, _)
\* d.update(other)
DictUpdate(d, other) ==
    IF other = << >> THEN d
    ELSE DictUpdate(DictSet(d, other[1][1], other[1][2]), Tail(other))

\* What an operation that raised left behind: no value.
Raised(op) == [Result(op, FALSE, << >>, << >>, 0, 0) EXCEPT !.value = << >>]

spec_indicators ==
    << <<"s", "p", "e", "c", "i", "f", "i", "c", "a", "t", "i", "o", "n">>, <<"p", "a", "r", "a", "m", "e", "t", "e", "r">>, <<"d", "e", "s", "c", "r", "i", "p", "t", "i", "o", "n">>, <<"f", "e", "a", "t", "u", "r", "e">> >>

value_indicators == << <<"v", "a", "l", "u", "e">>, <<"r", "a", "t", "i", "n", "g">>, <<"t", "y", "p", "i", "c", "a", "l">>, <<"m", "i", "n">>, <<"m", "a", "x">> >>

\* any(ind in header for ind in indicators)
AnyIn(header, indicators) ==
    \E k \in 1..Len(indicators) : Contains(header, indicators[k])

\* [cell.lower().strip() for cell in table[0]]
Headers(table) == [k \in 1..Len(table[1]) |-> strip(lower(table[1][k]))]

RECURSIVE ColumnsFrom_first(_, _, _)
\* Mutant of ColumnsFrom: a column index once found is kept.
ColumnsFrom_first(headers, k, cols) ==
    IF k > Len(headers) THEN cols
    ELSE ColumnsFrom_first(headers, k + 1,
           IF AnyIn(headers[k], spec_indicators)
           THEN [cols EXCEPT !.spec_col_idx =
                    IF cols.spec_col_idx = None THEN Some(k - 1) ELSE @]
           ELSE IF AnyIn(headers[k], value_indicators)
                THEN [cols EXCEPT !.value_col_idx =
                         IF cols.value_col_idx = None THEN Some(k - 1) ELSE @]
                ELSE cols)

RECURSIVE ColumnsFrom(_, _, _)
\* The loop over enumerate(headers) from header k on; cols holds
\* spec_col_idx and value_col_idx, counted from 0 as in the source.
ColumnsFrom(headers, k, cols) ==
    IF k > Len(headers) THEN cols
    ELSE ColumnsFrom(headers, k + 1,
           IF AnyIn(headers[k], spec_indicators)
           THEN [cols EXCEPT !.spec_col_idx = Some(k - 1)]
           ELSE IF AnyIn(headers[k], value_indicators)
                THEN [cols EXCEPT !.value_col_idx = Some(k - 1)]
                ELSE cols)

Columns(table) ==
    ColumnsFrom(Headers(table), 1,
                [spec_col_idx |-> None, value_col_idx |-> None])

Max(a, b) == IF a >= b THEN a ELSE b

\* Mutant of RowGuard: the row is only checked for being non-empty.
RowGuard_nonempty(row, spec_col_idx, value_col_idx) == Len(row) > 0

\* len(row) > max(spec_col_idx, value_col_idx)
RowGuard(row, spec_col_idx, value_col_idx) ==
    Len(row) > Max(spec_col_idx, value_col_idx)

\* row[idx] raises IndexError.
IndexError(row, idx) == idx >= Len(row)

\* The rows of table[1:] whose cells the loop reads.
RowsRead(table, cols) ==
    IF cols.spec_col_idx # None /\ cols.value_col_idx # None
    THEN {r \in 2..Len(table) :
            RowGuard(table[r], cols.spec_col_idx[1], cols.value_col_idx[1])}
    ELSE {}

RECURSIVE RowSpecsFrom_named(_, _, _, _)
\* Mutant of RowSpecsFrom: a row with a name gives a pair, whatever its
\* value cell holds.
RowSpecsFrom_named(table, cols, r, specs) ==
    IF r > Len(table) THEN specs
    ELSE IF r \notin RowsRead(table, cols)
         THEN RowSpecsFrom_named(table, cols, r + 1, specs)
         ELSE LET spec_name  == strip(table[r][cols.spec_col_idx[1] + 1])
                  spec_value == strip(table[r][cols.value_col_idx[1] + 1])
              IN  RowSpecsFrom_named(table, cols, r + 1,
                     IF TruthyStr(spec_name)
                     THEN DictSet(specs, spec_name, spec_value)
                     ELSE specs)

RECURSIVE RowSpecsFrom(_, _, _, _)
\* The loop over table[1:] from row r on, for the rows it reads.
RowSpecsFrom(table, cols, r, specs) ==
    IF r > Len(table) THEN specs
    ELSE IF r \notin RowsRead(table, cols)
         THEN RowSpecsFrom(table, cols, r + 1, specs)
         ELSE LET spec_name  == strip(table[r][cols.spec_col_idx[1] + 1])
                  spec_value == strip(table[r][cols.value_col_idx[1] + 1])
              IN  RowSpecsFrom(table, cols, r + 1,
                     IF TruthyStr(spec_name) /\ TruthyStr(spec_value)
                     THEN DictSet(specs, spec_name, spec_value)
                     ELSE specs)

RECURSIVE Join(_, _)
\* sep.join(parts)
Join(sep, parts) ==
    IF parts = << >> THEN << >>
    ELSE IF Len(parts) = 1 THEN parts[1]
         ELSE parts[1] \o sep \o Join(sep, Tail(parts))

\* ' '.join([' '.join(row) for row in table])
TableText(table) ==
    Join(<<" ">>, [r \in 1..Len(table) |-> Join(<<" ">>, table[r])])

\* Mutant of TableSpecs: the pattern-derived entries do not replace the
\* row-derived ones.
TableSpecs_rows_win(table) ==
    LET cols == Columns(table)
    IN  DictUpdate(extract_all_specs(TableText(table)),
                   RowSpecsFrom(table, cols, 2, << >>))

\* Mutant of TableSpecs: the patterns are run on the data rows only.
TableSpecs_data_rows(table) ==
    LET cols == Columns(table)
    IN  DictUpdate(RowSpecsFrom(table, cols, 2, << >>),
                   extract_all_specs(TableText(Tail(table))))

\* The dict parse_table_specs builds for a table of two or more rows.
TableSpecs(table) ==
    LET cols == Columns(table)
    IN  DictUpdate(RowSpecsFrom(table, cols, 2, << >>),
                   extract_all_specs(TableText(table)))

parse_table_specs(table) ==
    IF Len(table) < 2 THEN Returned("parse_table_specs", << >>)
    ELSE IF \E r \in RowsRead(table, Columns(table)) :
               \/ IndexError(table[r], Columns(table).spec_col_idx[1])
               \/ IndexError(table[r], Columns(table).value_col_idx[1])
         THEN Raised("parse_table_specs")
         ELSE Returned("parse_table_specs", TableSpecs(table))

(***************************************************************************)
(* Calls of SpecificationParser.                                           *)
(***************************************************************************)
ExtractAllSpecs ==
    Call(Returned("extract_all_specs", extract_all_specs(input_text)))

IdentifyComponentType ==
    Call(identify_component_type(input_text))

ParsePowerSpecs ==
    Call(parse_power_specs(input_text))

ParseInterfaces ==
    Call(parse_interfaces(input_text))

ParseTableSpecs ==
    Call(parse_table_specs(input_table))

RECURSIVE TextsOf(_, _)
\* The texts made of up to n of the given pieces of text.
TextsOf(pieces, n) ==
    IF n = 0 THEN {<<>>}
    ELSE LET shorter == TextsOf(pieces, n - 1)
         IN  shorter \cup {s \o p : s \in shorter, p \in pieces}

InitText(texts) ==
    /\ input_text \in texts
    /\ input_table = << >>
    /\ project = NewProject(<<"b", "e", "n", "c", "h">>)
    /\ component = NewComponent(<<"M", "1">>, <<"m", "o", "t", "o", "r">>, <<"m", ".", "p", "d", "f">>)
    /\ result = NoResult
    /\ repeated = FALSE
    /\ Idle

(***************************************************************************)
(* identify_component_type: texts of words that are, hold or are not        *)
(* keywords of the categories.                                             *)
(***************************************************************************)
ClassifyPieces ==
    {<<"B", "r", "u", "s", "h", "l", "e", "s", "s", " ">>, <<"m", "o", "t", "o", "r", " ">>, <<"I", "M", "U", " ">>, <<"g", "y", "r", "o", "s", "c", "o", "p", "e", " ">>, <<"d", "e", "s", "c", "r", "i", "p", "t", "i", "o", "n", " ">>,
     <<"2", "3", "0", "0", "K", "V", " ">>}

InitClassify == InitText(TextsOf(ClassifyPieces, MaxClassifyPieces))

NextClassify == IdentifyComponentType

SpecClassify == InitClassify /\ [][NextClassify]_vars

(***************************************************************************)
(* parse_power_specs: texts of mentions, each a context keyword or none     *)
(* followed by a voltage in upper or lower case or by none.                *)
(***************************************************************************)
PowerLabels == {<<>>, <<"I", "n", "p", "u", "t", ":", " ">>, <<"V", "o", "u", "t", " ">>, <<"s", "u", "p", "p", "l", "y", " ">>}

PowerValues == {<<>>, <<"1", "2", "V", ",", " ">>, <<"5", "v", " ", "2", "A", " ">>}

PowerPieces == {label \o value : label \in PowerLabels, value \in PowerValues}

InitPowerParse == InitText(TextsOf(PowerPieces, MaxPowerPieces))

NextPowerParse == ParsePowerSpecs

SpecPowerParse == InitPowerParse /\ [][NextPowerParse]_vars

(***************************************************************************)
(* parse_interfaces: texts of counted and uncounted interface names.        *)
(***************************************************************************)
InterfacePieces ==
    {<<"3", "x", " ", "U", "A", "R", "T", ",", " ">>, <<"2", "x", " ", "I", "2", "C", ",", " ">>, <<"1", "x", " ", "S", "P", "I", " ">>, <<"5", " ", "u", "a", "r", "t", " ">>, <<"6", "×", "P", "W", "M", " ">>, <<"1", "2">>}

InitInterfaces == InitText(TextsOf(InterfacePieces, MaxInterfacePieces))

NextInterfaces == ParseInterfaces

SpecInterfaces == InitInterfaces /\ [][NextInterfaces]_vars

(***************************************************************************)
(* parse_table_specs: grids of one row with and without header keywords     *)
(* and of data rows of different lengths.                                  *)
(***************************************************************************)
FirstRows ==
    { << <<"P", "a", "r", "a", "m", "e", "t", "e", "r">>, <<"V", "a", "l", "u", "e">> >>,
      << <<"P", "a", "r", "a", "m", "e", "t", "e", "r">>, <<"D", "e", "s", "c", "r", "i", "p", "t", "i", "o", "n">>, <<"M", "i", "n">>, <<"M", "a", "x">> >>,
      << <<"I", "t", "e", "m">>, <<"Q", "t", "y">> >>,
      << <<" ", "F", "E", "A", "T", "U", "R", "E", " ", "v", "a", "l", "u", "e", " ">>, <<"T", "y", "p", "i", "c", "a", "l">> >>,
      << <<"R", "a", "t", "i", "n", "g">>, <<"S", "p", "e", "c", "i", "f", "i", "c", "a", "t", "i", "o", "n">> >>,
      << <<"S", "u", "p", "p", "l", "y", " ", "5", "V">>, <<"M", "a", "x", " ", "2", "A">> >>,
      << >> }

DataRows ==
    { << <<"v", "o", "l", "t", "a", "g", "e">>, <<"1", "2", " ", "v", "o", "l", "t", "s">> >>,
      << <<"V", "o", "l", "t", "a", "g", "e">>, <<"5", "V">> >>,
      << <<"W", "e", "i", "g", "h", "t">> >>,
      << <<" ", "k", "v", " ">>, <<"2", "3", "0", "0", "K", "V">>, <<"n", "/", "a">>, <<"9", "2", "0", "K", "V">> >> }

RECURSIVE RowsOf(_)
\* The sequences of up to n data rows.
RowsOf(n) ==
    IF n = 0 THEN {<< >>}
    ELSE LET fewer == RowsOf(n - 1)
         IN  fewer \cup {Append(rows, r) : rows \in fewer, r \in DataRows}

TableInputs ==
    {<< >>} \cup {<< first >> \o rows : first \in FirstRows,
                                         rows \in RowsOf(MaxTableRows)}

InitTable ==
    /\ input_table \in TableInputs
    /\ input_text = <<>>
    /\ project = NewProject(<<"b", "e", "n", "c", "h">>)
    /\ component = NewComponent(<<"M", "1">>, <<"m", "o", "t", "o", "r">>, <<"m", ".", "p", "d", "f">>)
    /\ result = NoResult
    /\ repeated = FALSE
    /\ Idle

NextTable == ParseTableSpecs

SpecTable == InitTable /\ [][NextTable]_vars

(***************************************************************************)
(* Every extractor and validator, called again and again on a project that  *)
(* grows between the calls.                                                *)
(***************************************************************************)
RepeatPool ==
    { [WithVoltage(NewComponent(<<"X", "1">>, <<"P", "r", "o", "c", "e", "s", "s", "o", "r">>, <<>>), <<"1", "2", "V", "O", "L", "T", "S">>)
         EXCEPT !.power.capacity = Some(<<"2", "2", "0", "0">>)],
      WithInterfaces(NewComponent(<<"P", "1">>, <<"p", "r", "o", "c", "e", "s", "s", "o", "r">>, <<"p", ".", "p", "d", "f">>), 0, 1, 0),
      WithSpecs(WithVoltage(NewComponent(<<"R", "1">>, <<"r", "a", "d", "i", "o">>, <<"r", ".", "p", "d", "f">>), <<"5", "V">>),
                << << <<"p", "o", "r", "t">>, <<"u", "a", "r", "t", "2">> >> >>),
      [WithVoltage(NewComponent(<<"B", "1">>, <<"b", "a", "t", "t", "e", "r", "y">>, <<"b", ".", "p", "d", "f">>), <<"1", "2", "V">>)
         EXCEPT !.power.current_rating = Some(<<"6", "0", "A">>)] }

RepeatTexts == {<<>>, <<"B", "r", "u", "s", "h", "l", "e", "s", "s", " ", "m", "o", "t", "o", "r", " ", "I", "n", "p", "u", "t", ":", " ", "1", "2", "V", " ", "2", "A", " ", "3", "x", " ", "U", "A", "R", "T">>}

RepeatTables ==
    { << >>,
      << << <<"P", "a", "r", "a", "m", "e", "t", "e", "r">>, <<"V", "a", "l", "u", "e">> >>, << <<"v", "o", "l", "t", "a", "g", "e">>, <<"1", "2", " ", "v", "o", "l", "t", "s">> >>,
         << <<"V", "o", "l", "t", "a", "g", "e">>, <<"5", "V">> >> >> }

InitRepeat ==
    /\ project = NewProject(<<"F", "P", "V", " ", "D", "R", "O", "N", "E">>)
    /\ component = WithVoltage(NewComponent(<<>>, <<"w", "i", "d", "g", "e", "t">>, <<>>), <<"V">>)
    /\ input_text \in RepeatTexts
    /\ input_table \in RepeatTables
    /\ result = NoResult
    /\ repeated = FALSE
    /\ Idle

AddRepeatComponent == AddComponent(RepeatPool, MaxRepeatComponents)

NextRepeat ==
    \/ AddRepeatComponent
    \/ ExtractAllSpecs
    \/ ParsePowerSpecs
    \/ ParseInterfaces
    \/ IdentifyComponentType
    \/ ParseTableSpecs
    \/ ValidateComponent
    \/ ValidateProject
    \/ CheckPowerCompatibility
    \/ CheckInterfaceAvailability

SpecRepeat == InitRepeat /\ [][NextRepeat]_vars

(***************************************************************************)
(* Properties of ComponentValidator (checked under SpecComponent).         *)
(***************************************************************************)
\* A field of a PowerSpec is populated: neither None nor "".
Populated(field) == field # None /\ field # Some(<<>>)

\* t is digits, then at most one ".", then digits, and begins with a digit.
IsNumberText(t) ==
    /\ t # << >>
    /\ IsDigit(t[1])
    /\ \A i \in 1..Len(t) : IsDigit(t[i]) \/ t[i] = "."
    /\ Cardinality({i \in 1..Len(t) : t[i] = "."}) <= 1

\* s is a number followed by one of the units (given in lower case, letter
\* case ignored), up to one final newline.
Conforms(s, units) ==
    \E k \in 1..Len(s), nl \in {0, 1} :
       /\ nl = 1 => (Len(s) > k /\ s[Len(s)] = "\n")
       /\ IsNumberText(SubSeq(s, 1, k))
       /\ lower(SubSeq(s, k + 1, Len(s) - nl)) \in units

VoltageUnits == {<<"v">>, <<"v", "d", "c">>, <<"v", "a", "c">>}

\* A populated field that does not conform to its unit family.
Malformed(field, units) == Populated(field) /\ ~Conforms(field[1], units)

\* The checks of validate_component: the error text and whether the
\* component violates the check.
ComponentChecks(c) ==
    << << "Component name is required", c.name = <<>> >>,
       << "Component type is required", c.component_type = <<>> >>,
       << "Source document is required", c.source_document = <<>> >>,
       << "Invalid voltage input format",
          Malformed(c.power.voltage_input, VoltageUnits) >>,
       << "Invalid voltage output format",
          Malformed(c.power.voltage_output, VoltageUnits) >>,
       << "Invalid current rating format",
          Malformed(c.power.current_rating, {<<"m", "a">>, <<"a">>}) >>,
       << "Invalid power consumption format",
          Malformed(c.power.power_consumption, {<<"m", "w">>, <<"w">>}) >>,
       << "Invalid capacity format",
          Malformed(c.power.capacity, {<<"m", "a", "h">>}) >> >>

\* The number of entries of list with the given text.
CountText(list, text) ==
    Cardinality({i \in 1..Len(list) : list[i].text = text})

\* A component whose only violation is voltage_input = "12VOLTS".
OnlyBadVoltage(c) ==
    /\ c.name # <<>> /\ c.component_type # <<>> /\ c.source_document # <<>>
    /\ c.power = [DefaultPowerSpec EXCEPT !.voltage_input = Some(<<"1", "2", "V", "O", "L", "T", "S">>)]

\* C1: validate_component returns an error list holding exactly one entry
\* for each violated check (empty name, empty component_type, empty
\* source_document, each populated PowerSpec field that does not match its
\* unit pattern) and nothing else; a component whose only violation is
\* voltage_input "12VOLTS" yields ok = False with exactly one error.
C1_ErrorsExactlyViolatedChecks ==
    result.op = "validate_component" =>
        LET checks == ComponentChecks(component)
            errors == result.list
        IN  /\ \A k \in 1..Len(checks) :
                  CountText(errors, checks[k][1])
                      = IF checks[k][2] THEN 1 ELSE 0
            /\ Len(errors) = Cardinality({k \in 1..Len(checks) : checks[k][2]})
            /\ OnlyBadVoltage(component) =>
                  /\ ~result.ok
                  /\ Len(errors) = 1
                  /\ errors[1].text = "Invalid voltage input format"
                  /\ errors[1].value = <<"1", "2", "V", "O", "L", "T", "S">>

C1_Witness ==
    /\ result.op = "validate_component"
    /\ OnlyBadVoltage(component)
    /\ ~result.ok
    /\ Len(result.list) = 1

\* The component with a component_type of the known set instead of its own.
WithKnownType(c) == [c EXCEPT !.component_type = <<"m", "o", "t", "o", "r">>]

KnownTypes ==
    {<<"m", "o", "t", "o", "r">>, <<"s", "e", "n", "s", "o", "r">>, <<"c", "a", "m", "e", "r", "a">>, <<"p", "r", "o", "c", "e", "s", "s", "o", "r">>, <<"b", "a", "t", "t", "e", "r", "y">>, <<"e", "s", "c">>,
     <<"r", "a", "d", "i", "o">>, <<"p", "o", "w", "e", "r">>, <<"o", "t", "h", "e", "r">>}

\* C2: validate_component returns ok = true exactly when the returned
\* error list is empty, and a non-empty component_type outside the known
\* set adds no error and does not change ok: the errors are those of the
\* same component with a known type, and "widget" with all else valid
\* yields ok = True.
C2_OkIffNoErrors ==
    result.op = "validate_component" =>
        /\ result.ok <=> result.list = << >>
        /\ (component.component_type # <<>>
            /\ component.component_type \notin KnownTypes) =>
              /\ result.list = validate_component(WithKnownType(component)).list
              /\ result.ok = validate_component(WithKnownType(component)).ok
              /\ CountText(result.list, "Component type is required") = 0
        /\ (/\ component.component_type = <<"w", "i", "d", "g", "e", "t">>
            /\ component.name # <<>> /\ component.source_document # <<>>
            /\ component.power = DefaultPowerSpec) => result.ok

C2_Witness ==
    /\ result.op = "validate_component"
    /\ component.component_type = <<"w", "i", "d", "g", "e", "t">>
    /\ result.ok
    /\ result.logged # << >>

\* The number of true entries of a sequence of truth values.
CountTrue(flags) == Cardinality({i \in 1..Len(flags) : flags[i]})

\* The seven checklist items of check_completeness other than the interface
\* item.
PlainItems(c) ==
    << c.name # <<>>, c.component_type # <<>>, Populated(c.manufacturer),
       Populated(c.part_number), Populated(c.power.voltage_input),
       Populated(c.power.current_rating), c.specific_specs # << >> >>

\* C3: check_completeness counts the interface item as populated whenever
\* at least one of the seven interface counts is non-zero, so that the
\* score is (number of populated checklist items) / 8.
C3_AnyOfSevenInterfaces ==
    result.op = "check_completeness" =>
        /\ result.total = 8
        /\ result.filled =
              CountTrue(PlainItems(component))
              + (IF \E k \in InterfaceKinds : component.interfaces[k] # 0
                 THEN 1 ELSE 0)

\* C4: check_completeness returns a value in [0,1] in which each of the
\* eight checklist items weighs 1/8: 1.0 for a fully populated component
\* and 2/8 for a component with only name and component_type populated.
C4_ScoreInEighths ==
    result.op = "check_completeness" =>
        LET plain == CountTrue(PlainItems(component))
            all   == \A k \in InterfaceKinds : component.interfaces[k] # 0
            zero  == \A k \in InterfaceKinds : component.interfaces[k] = 0
        IN  /\ result.total = 8
            /\ 0 <= result.filled /\ result.filled <= result.total
            /\ result.filled - plain \in {0, 1}
            /\ all => result.filled = plain + 1
            /\ zero => result.filled = plain
            /\ (plain = 7 /\ all) => result.filled = result.total
            /\ (/\ component.name # <<>> /\ component.component_type # <<>>
                /\ plain = 2 /\ zero) => 8 * result.filled = 2 * result.total

C4_Witness ==
    /\ result.op = "check_completeness"
    /\ CountTrue(PlainItems(component)) = 7
    /\ \A k \in InterfaceKinds : component.interfaces[k] # 0
    /\ result.filled = result.total

(***************************************************************************)
(* Properties of SpecValidator.validate_project (checked under             *)
(* SpecProject).                                                           *)
(***************************************************************************)
\* C5: validate_project returns ok = true exactly when the returned
\* warning list is empty; for a project without components ok = False and
\* the warnings hold exactly one "no components" entry.
C5_ProjectOkIffNoWarnings ==
    result.op = "validate_project" =>
        /\ result.ok <=> result.list = << >>
        /\ project.components = << >> =>
              /\ ~result.ok
              /\ CountText(result.list, "No components found in project") = 1

C5_Witness ==
    /\ result.op = "validate_project"
    /\ project.components = << >>
    /\ ~result.ok
    /\ Len(result.list) > 1

\* The positions of the components of p that validate_component rejects.
Rejected(p) ==
    {i \in 1..Len(p.components) : ~validate_component(p.components[i]).ok}

\* C6: validate_project emits exactly one warning for each component that
\* validate_component rejects, tagged with the component's index and name
\* and holding all of its errors, none for a component that validates, and
\* these warnings are in component insertion order.
C6_OneWarningPerRejectedComponent ==
    result.op = "validate_project" =>
        LET cw  == SelectSeq(result.list, LAMBDA m : m.text = "Component")
            bad == Rejected(project)
        IN  /\ Len(cw) = Cardinality(bad)
            /\ \A k \in 1..Len(cw) :
                  /\ cw[k].idx \in bad
                  /\ Cardinality({j \in bad : j <= cw[k].idx}) = k
                  /\ cw[k].name = project.components[cw[k].idx].name
                  /\ cw[k].errors
                        = validate_component(project.components[cw[k].idx]).list

C6_Witness ==
    /\ result.op = "validate_project"
    /\ Cardinality(Rejected(project)) = 2
    /\ \E i, j, k \in 1..Len(project.components) :
          i < j /\ j < k /\ i \in Rejected(project)
          /\ j \notin Rejected(project) /\ k \in Rejected(project)
    /\ CountText(result.list, "Component") = 2

\* The name holds the keyword, letter case ignored.
HasKeyword(name, keyword) ==
    \E i \in 1..Len(name) :
       /\ i + Len(keyword) - 1 <= Len(name)
       /\ \A j \in 1..Len(keyword) : LowerChar(name[i + j - 1]) = keyword[j]

DomainKeywords == {<<"d", "r", "o", "n", "e">>, <<"q", "u", "a", "d", "c", "o", "p", "t", "e", "r">>}

RequiredCategories == {<<"p", "r", "o", "c", "e", "s", "s", "o", "r">>, <<"m", "o", "t", "o", "r">>, <<"e", "s", "c">>, <<"b", "a", "t", "t", "e", "r", "y">>, <<"r", "a", "d", "i", "o">>}

\* The description the essentials table gives a category.
Description(category) ==
    essentials[CHOOSE k \in 1..Len(essentials) : essentials[k][1] = category][2]

\* The number of missing-essential warnings of list for the category.
CountMissing(list, category) ==
    Cardinality({i \in 1..Len(list) :
                   /\ list[i].text = "Missing essential component"
                   /\ list[i].value = Description(category)})

\* C7: when the project name holds 'drone' or 'quadcopter' (letter case
\* ignored) validate_project adds exactly one missing-essential warning for
\* each of processor, motor, esc, battery, radio that no component has as
\* its component_type and none for a category that is present; when the
\* name holds no keyword it adds none.
C7_MissingEssentials ==
    result.op = "validate_project" =>
        LET domain  == \E w \in DomainKeywords : HasKeyword(project.name, w)
            present == {project.components[i].component_type :
                          i \in 1..Len(project.components)}
            missing == {t \in RequiredCategories : domain /\ t \notin present}
        IN  /\ \A t \in RequiredCategories :
                  CountMissing(result.list, t) = IF t \in missing THEN 1 ELSE 0
            /\ CountText(result.list, "Missing essential component")
                  = Cardinality(missing)

C7_Witness ==
    /\ result.op = "validate_project"
    /\ project.name = <<"F", "P", "V", " ", "D", "R", "O", "N", "E">>
    /\ \E i \in 1..Len(project.components) :
          project.components[i].component_type = <<"m", "o", "t", "o", "r">>
    /\ CountMissing(result.list, <<"m", "o", "t", "o", "r">>) = 0
    /\ CountMissing(result.list, <<"r", "a", "d", "i", "o">>) = 1
    /\ CountText(result.list, "Missing essential component") = 3

(***************************************************************************)
(* Properties of SpecValidator.check_power_compatibility (checked under    *)
(* SpecPower).                                                             *)
(***************************************************************************)
RECURSIVE Pow10(_)
Pow10(n) == IF n = 0 THEN 1 ELSE 10 * Pow10(n - 1)

\* The number the text of digits and at most one "." denotes, in
\* thousandths (texts of at most three fraction digits).
Thousandths(text) ==
    LET dots == {i \in 1..Len(text) : text[i] = "."}
        dot  == IF dots = {} THEN Len(text) + 1 ELSE CHOOSE i \in dots : TRUE
        frac == SubSeq(text, dot + 1, Len(text))
    IN  1000 * IntVal(SubSeq(text, 1, dot - 1))
        + IntVal(frac) * Pow10(3 - Len(frac))

\* The first number written in s: the digits from the first digit of s on,
\* with at most one "." inside or after them.
LeadingNumber(s) ==
    LET first == CHOOSE i \in 1..Len(s) :
                    IsDigit(s[i]) /\ \A j \in 1..(i - 1) : ~IsDigit(s[j])
        last  == CHOOSE j \in first..Len(s) :
                    /\ IsNumberText(SubSeq(s, first, j))
                    /\ j < Len(s) => ~IsNumberText(SubSeq(s, first, j + 1))
    IN  SubSeq(s, first, last)

\* The distinct numeric input voltages of the project, in thousandths.
VoltageLevelSet(p) ==
    { Thousandths(LeadingNumber(p.components[i].power.voltage_input[1])) :
      i \in {i \in 1..Len(p.components) :
               /\ Populated(p.components[i].power.voltage_input)
               /\ \E j \in 1..Len(p.components[i].power.voltage_input[1]) :
                     IsDigit(p.components[i].power.voltage_input[1][j])} }

\* C8: check_power_compatibility reports the multiple-voltage issue exactly
\* when the distinct numeric values of the components' populated
\* voltage_input fields are more than three: equal numbers count once,
\* components without voltage_input are ignored, three levels raise no
\* issue.
C8_MoreThanThreeVoltageLevels ==
    result.op = "check_power_compatibility" =>
        CountText(result.list, "Multiple voltage requirements detected")
            = IF Cardinality(VoltageLevelSet(project)) > 3 THEN 1 ELSE 0

C8_Witness ==
    /\ result.op = "check_power_compatibility"
    /\ Cardinality(VoltageLevelSet(project)) = 4
    /\ CountText(result.list, "Multiple voltage requirements detected") = 1

\* C9: check_power_compatibility reports the high-current issue exactly
\* when a component of type 'battery' exists and the total current of
\* total_power_budget is strictly above 50 A, a missing total counting as
\* 0; without a battery it never reports it.
C9_HighCurrentWithBattery ==
    result.op = "check_power_compatibility" =>
        LET budget  == project.total_power_budget
            entries == {i \in 1..Len(budget) : budget[i][1] = "total_current_a"}
            total   == IF entries = {} THEN 0
                       ELSE budget[CHOOSE i \in entries : TRUE][2]
            battery == \E i \in 1..Len(project.components) :
                          project.components[i].component_type = <<"b", "a", "t", "t", "e", "r", "y">>
        IN  CountText(result.list, "High total current draw")
                = IF battery /\ total > 50 THEN 1 ELSE 0

C9_Witness ==
    /\ result.op = "check_power_compatibility"
    /\ CountText(result.list, "High total current draw") = 1
    /\ \E i \in 1..Len(project.components) :
          project.components[i].component_type = <<"b", "a", "t", "t", "e", "r", "y">>

(***************************************************************************)
(* Properties of SpecValidator.check_interface_availability (checked       *)
(* under SpecIface).                                                       *)
(***************************************************************************)
IsController(c) == c.component_type \in {<<"p", "r", "o", "c", "e", "s", "s", "o", "r">>, <<"c", "o", "n", "t", "r", "o", "l", "l", "e", "r">>}

\* A key or a value of the component's specific_specs holds the protocol
\* name, letter case ignored.
SpecsMention(c, protocol) ==
    \E i \in 1..Len(c.specific_specs), side \in {1, 2} :
       HasKeyword(c.specific_specs[i][side], protocol)

\* The sensor, radio and camera components whose specific_specs mention
\* the protocol.
Demand(p, protocol) ==
    Cardinality({i \in 1..Len(p.components) :
                   /\ p.components[i].component_type
                         \in {<<"s", "e", "n", "s", "o", "r">>, <<"r", "a", "d", "i", "o">>, <<"c", "a", "m", "e", "r", "a">>}
                   /\ SpecsMention(p.components[i], protocol)})

\* The protocols: the name searched for, the label of the issue, the count
\* of the controller.
Protocols ==
    { << <<"u", "a", "r", "t">>, <<"U", "A", "R", "T">>, "uart_count" >>, << <<"i", "2", "c">>, <<"I", "2", "C">>, "i2c_count" >>,
      << <<"s", "p", "i">>, <<"S", "P", "I">>, "spi_count" >> }

\* The shortfall issues of list for the label.
ShortfallsOf(list, label) ==
    {i \in 1..Len(list) :
       list[i].text = "Insufficient ports" /\ list[i].value = label}

\* C10: in a project with a component of type 'processor' or 'controller',
\* check_interface_availability takes the first such component as the
\* controller and reports a shortfall for UART, I2C or SPI exactly when the
\* number of sensor, radio and camera components whose specific_specs
\* mention the protocol exceeds that controller's count; a peripheral adds
\* at most one per protocol and components of other types add none.
C10_ShortfallAgainstFirstController ==
    (/\ result.op = "check_interface_availability"
     /\ \E i \in 1..Len(project.components) : IsController(project.components[i]))
    =>
        LET first == CHOOSE i \in 1..Len(project.components) :
                        /\ IsController(project.components[i])
                        /\ \A j \in 1..(i - 1) : ~IsController(project.components[j])
            ctrl  == project.components[first]
        IN  /\ \A pr \in Protocols :
                  LET need  == Demand(project, pr[1])
                      have  == ctrl.interfaces[pr[3]]
                      found == ShortfallsOf(result.list, pr[2])
                  IN  /\ Cardinality(found) = IF need > have THEN 1 ELSE 0
                      /\ \A i \in found :
                            result.list[i].need = need /\ result.list[i].have = have
            /\ \A i \in 1..Len(result.list) :
                  result.list[i].text = "Insufficient ports"

C10_Witness ==
    /\ result.op = "check_interface_availability"
    /\ Cardinality({i \in 1..Len(project.components) :
                      IsController(project.components[i])}) = 2
    /\ project.components[1].component_type = <<"p", "r", "o", "c", "e", "s", "s", "o", "r">>
    /\ ShortfallsOf(result.list, <<"U", "A", "R", "T">>) # {}
    /\ ShortfallsOf(result.list, <<"I", "2", "C">>) = {}

(***************************************************************************)
(* Properties of identify_component_type (checked under SpecClassify).     *)
(***************************************************************************)
\* The categories in the order they are registered.
CategoryOrder ==
    << <<"m", "o", "t", "o", "r">>, <<"s", "e", "n", "s", "o", "r">>, <<"c", "a", "m", "e", "r", "a">>, <<"p", "r", "o", "c", "e", "s", "s", "o", "r">>, <<"b", "a", "t", "t", "e", "r", "y">>, <<"e", "s", "c">>,
       <<"r", "a", "d", "i", "o">>, <<"p", "o", "w", "e", "r">> >>

\* The number of keywords of the category that occur in the text, letter
\* case of the text ignored.
Occurring(text, category) ==
    LET keywords == DictGet(COMPONENT_TYPE_KEYWORDS, category, << >>)
    IN  Cardinality({k \in 1..Len(keywords) : HasKeyword(text, keywords[k])})

\* C11: identify_component_type returns the category with the largest
\* number of keywords occurring in the lower-cased text, the category
\* registered first among those that tie for it, and None exactly when every
\* category scores zero.
C11_FirstRegisteredMaximum ==
    result.op = "identify_component_type" =>
    LET score == [k \in 1..Len(CategoryOrder) |->
                    Occurring(input_text, CategoryOrder[k])]
    IN  IF \A k \in 1..Len(score) : score[k] = 0
        THEN result.value = << None >>
        ELSE \E k \in 1..Len(score) :
                /\ result.value = << Some(CategoryOrder[k]) >>
                /\ \A m \in 1..Len(score) : score[m] <= score[k]
                /\ \A m \in 1..(k - 1) : score[m] < score[k]

\* A text in which sensor comes first and ties with motor: motor is returned.
C11_Witness ==
    /\ result.op = "identify_component_type"
    /\ LiteralAt(input_text, 1, <<"I", "M", "U", " ">>)
    /\ Occurring(input_text, <<"s", "e", "n", "s", "o", "r">>) = Occurring(input_text, <<"m", "o", "t", "o", "r">>)
    /\ Occurring(input_text, <<"m", "o", "t", "o", "r">>) > 0
    /\ result.value = << Some(<<"m", "o", "t", "o", "r">>) >>

(***************************************************************************)
(* Properties of parse_power_specs (checked under SpecPowerParse).         *)
(***************************************************************************)
\* The text from position j on begins with a mention of the voltage.
MentionedAt(text, j, voltage) ==
    /\ LiteralAt(text, j, voltage)
    /\ SubSeq(text, j, j + Len(voltage) - 1) = voltage

\* One of the keywords occurs in the text before a mention of the voltage.
AfterKeyword(text, keywords, voltage) ==
    \E k \in 1..Len(keywords), i \in 1..Len(text) :
       /\ LiteralAt(text, i, keywords[k])
       /\ \E j \in (i + 1)..Len(text) : MentionedAt(text, j, voltage)

\* C12: parse_power_specs uses the first voltage of the text only when
\* neither contextual search matched, as voltage_input and with
\* voltage_output unset; when one contextual search matched, the field of
\* the other one stays unset; voltage_output is only ever a voltage that
\* follows an output keyword.
C12_FallbackOnlyWithoutContext ==
    result.op = "parse_power_specs" =>
    LET in_context  == extract_contextual_voltage(input_text, InputKeywords)
        out_context == extract_contextual_voltage(input_text, OutputKeywords)
        power       == result.value[1]
    IN  /\ (in_context = None /\ out_context = None) =>
             /\ power.voltage_input = extract_pattern(input_text, <<"v", "o", "l", "t", "a", "g", "e">>)
             /\ power.voltage_output = None
        /\ (in_context # None \/ out_context # None) =>
             /\ power.voltage_input = in_context
             /\ power.voltage_output = out_context
        /\ power.voltage_output # None =>
             AfterKeyword(input_text, OutputKeywords, power.voltage_output[1])

\* Only the output context matched a text that holds a voltage: the input
\* voltage stays unset.
C12_Witness ==
    /\ result.op = "parse_power_specs"
    /\ extract_contextual_voltage(input_text, InputKeywords) = None
    /\ result.value[1].voltage_output # None
    /\ result.value[1].voltage_input = None

\* A second state of the case of C12: no context, the first voltage of the
\* text is the input voltage.
C12_FallbackReached ==
    /\ result.op = "parse_power_specs"
    /\ extract_contextual_voltage(input_text, InputKeywords) = None
    /\ extract_contextual_voltage(input_text, OutputKeywords) = None
    /\ result.value[1].voltage_input # None

\* The position after the keyword at position i and the colons and spaces
\* that follow it.
AfterLabel(text, i, keyword) ==
    LET rest == {j \in (i + Len(keyword))..(Len(text) + 1) :
                   j = Len(text) + 1 \/ text[j] \notin {":", " "}}
    IN  CHOOSE j \in rest : \A k \in rest : j <= k

\* The voltages that directly follow one of the keywords in the text.
FollowingVoltages(text, keywords) ==
    {SubSeq(text, AfterLabel(text, p[1], keywords[p[2]]),
            MatchEnd(text, AfterLabel(text, p[1], keywords[p[2]]),
                     VoltagePattern, TRUE) - 1) :
       p \in {q \in (1..Len(text)) \X (1..Len(keywords)) :
                /\ LiteralAt(text, q[1], keywords[q[2]])
                /\ MatchEnd(text, AfterLabel(text, q[1], keywords[q[2]]),
                            VoltagePattern, TRUE) # 0}}

\* C13: for text in which an input keyword is followed by a voltage A and
\* an output keyword by a different voltage B, parse_power_specs returns
\* voltage_input = A and voltage_output = B, in either order of the two.
C13_BothContextsFound ==
    result.op = "parse_power_specs" =>
    \A A \in FollowingVoltages(input_text, InputKeywords),
       B \in FollowingVoltages(input_text, OutputKeywords) :
       ( /\ FollowingVoltages(input_text, InputKeywords) = {A}
         /\ FollowingVoltages(input_text, OutputKeywords) = {B}
         /\ A # B ) =>
       /\ result.value[1].voltage_input = Some(A)
       /\ result.value[1].voltage_output = Some(B)

(***************************************************************************)
(* Properties of parse_interfaces (checked under SpecInterfaces).          *)
(***************************************************************************)
\* A count of the interface is written from position i on, up to position
\* a - 1: digits, then the name, with nothing but blanks and at most one
\* multiplication sign between them.
CountedAt(text, i, a, name) ==
    /\ i < a
    /\ \A m \in i..(a - 1) : IsDigit(text[m])
    /\ \E b \in a..Len(text) :
          /\ LiteralAt(text, b, name)
          /\ Cardinality({m \in a..(b - 1) : text[m] \in {"×", "x", "X"}}) <= 1
          /\ \A m \in a..(b - 1) : text[m] \in {"×", "x", "X"} \/ IsSpace(text[m])

\* The positions at which a count of the interface begins.
CountStarts(text, name) ==
    {i \in 1..Len(text) :
       /\ IsDigit(text[i])
       /\ \E a \in (i + 1)..Len(text) : CountedAt(text, i, a, name)}

\* The number written from position i on.
NumberAt(text, i) ==
    LET ends == {a \in (i + 1)..(Len(text) + 1) :
                   /\ \A m \in i..(a - 1) : IsDigit(text[m])
                   /\ (a = Len(text) + 1 \/ ~IsDigit(text[a]))}
    IN  IntVal(SubSeq(text, i, (CHOOSE a \in ends : TRUE) - 1))

\* C14: parse_interfaces returns for each of the seven kinds the number
\* captured by the leftmost match of the kind, whatever matches follow it,
\* and 0 for a kind without a match.
C14_LeftmostCountPerKind ==
    result.op = "parse_interfaces" =>
    \A k \in 1..Len(INTERFACE_PATTERNS) :
       LET starts == CountStarts(input_text, INTERFACE_PATTERNS[k][2])
           count  == result.value[1][INTERFACE_PATTERNS[k][1] \o "_count"]
       IN  /\ count >= 0
           /\ starts = {} => count = 0
           /\ starts # {} =>
                count = NumberAt(input_text,
                                 CHOOSE i \in starts : \A j \in starts : i <= j)

\* Two counts of UART are written, a 3 before a 5: the count is 3; the
\* example of the claim is reached as well.
C14_Witness ==
    /\ result.op = "parse_interfaces"
    /\ \/ /\ input_text = <<"3", "x", " ", "U", "A", "R", "T", ",", " ", "5", " ", "u", "a", "r", "t", " ">>
          /\ result.value[1].uart_count = 3
       \/ /\ input_text = <<"3", "x", " ", "U", "A", "R", "T", ",", " ", "2", "x", " ", "I", "2", "C", ",", " ", "1", "x", " ", "S", "P", "I", " ">>
          /\ result.value[1] = [DefaultInterfaceSpec EXCEPT
                                  !.uart_count = 3, !.i2c_count = 2,
                                  !.spi_count = 1]

(***************************************************************************)
(* Properties of parse_table_specs (checked under SpecTable).              *)
(***************************************************************************)
\* The header cell holds one of the indicators, letter case ignored.
HoldsOneOf(cell, indicators) ==
    \E k \in 1..Len(indicators) : HasKeyword(cell, indicators[k])

\* The columns whose header cell has the role of the specification name.
NameColumns(table) ==
    {k \in 1..Len(table[1]) : HoldsOneOf(table[1][k], spec_indicators)}

\* The columns whose header cell has the role of the value: a cell that
\* has the role of the specification name has no other role.
ValueColumns(table) ==
    {k \in 1..Len(table[1]) :
       /\ ~HoldsOneOf(table[1][k], spec_indicators)
       /\ HoldsOneOf(table[1][k], value_indicators)}

FirstOf(columns) == CHOOSE k \in columns : \A m \in columns : k <= m

LastOf(columns) == CHOOSE k \in columns : \A m \in columns : m <= k

\* The data rows that hold a name in column s and a value in column v.
PairRows(table, s, v) ==
    {r \in 2..Len(table) :
       /\ Len(table[r]) >= s /\ Len(table[r]) >= v
       /\ strip(table[r][s]) # <<>> /\ strip(table[r][v]) # <<>>}

\* The names that the patterns find in the text of the table.
PatternKeys(table) ==
    LET found == extract_all_specs(TableText(table))
    IN  {found[k][1] : k \in 1..Len(found)}

\* The mapping holds the pairs of the given data rows for the columns s
\* and v, the last row of a name giving its value, and apart from the given
\* keys of the patterns nothing else.
HoldsPairs(specs, table, s, v, rows, keys) ==
    /\ \A r \in rows :
          ( /\ strip(table[r][s]) \notin keys
            /\ \A q \in rows : q > r => strip(table[q][s]) # strip(table[r][s]) ) =>
          DictGet(specs, strip(table[r][s]), << >>) = strip(table[r][v])
    /\ \A k \in 1..Len(specs) :
          \/ specs[k][1] \in keys
          \/ \E r \in rows : strip(table[r][s]) = specs[k][1]

HoldsPairsOf(specs, table, s, v) ==
    HoldsPairs(specs, table, s, v, PairRows(table, s, v), PatternKeys(table))

\* The mapping holds no pair of a data row.
HoldsNoPairs(specs, table) ==
    HoldsPairs(specs, table, 1, 1, {}, PatternKeys(table))

\* parse_table_specs returned a mapping for a grid with a header row.
ParsedWithHeader ==
    result.op = "parse_table_specs" /\ result.ok /\ Len(input_table) >= 2

\* C15 as stated: when several header cells match the keywords of a role,
\* the first matching header cell of the role determines its column.
C15_FirstMatchingHeaderWins ==
    ParsedWithHeader =>
    IF NameColumns(input_table) # {} /\ ValueColumns(input_table) # {}
    THEN HoldsPairsOf(result.value[1], input_table,
                      FirstOf(NameColumns(input_table)),
                      FirstOf(ValueColumns(input_table)))
    ELSE HoldsNoPairs(result.value[1], input_table)

\* C15, amended: when several header cells match the keywords of a role,
\* the last matching header cell of the role determines its column, a cell
\* that matches the keywords of both roles counting for the specification
\* name only.
C15_LastMatchingHeaderWins ==
    ParsedWithHeader =>
    IF NameColumns(input_table) # {} /\ ValueColumns(input_table) # {}
    THEN HoldsPairsOf(result.value[1], input_table,
                      LastOf(NameColumns(input_table)),
                      LastOf(ValueColumns(input_table)))
    ELSE HoldsNoPairs(result.value[1], input_table)

\* Two header cells match for each role and a data row holds different
\* cells in the first and in the last column of each: the pair of the last
\* columns is returned.
C15_Witness ==
    /\ ParsedWithHeader
    /\ Cardinality(NameColumns(input_table)) > 1
    /\ Cardinality(ValueColumns(input_table)) > 1
    /\ DictGet(result.value[1], <<"2", "3", "0", "0", "K", "V">>, << >>) = <<"9", "2", "0", "K", "V">>
    /\ DictGet(result.value[1], <<"k", "v">>, << >>) = << >>

\* The mapping holds every pair the patterns find in the text of the whole
\* table.
HoldsPatternPairs(specs, table) ==
    LET found == extract_all_specs(TableText(table))
    IN  \A k \in 1..Len(found) :
           \E m \in 1..Len(specs) : specs[m] = found[k]

\* C16 as stated: for any grid, whether or not a column pair was
\* identified, the mapping parse_table_specs returns holds every pair that
\* extract_all_specs returns for the flattened table.
C16_PatternPairsOfAnyGrid ==
    result.op = "parse_table_specs" =>
    result.ok /\ HoldsPatternPairs(result.value[1], input_table)

\* C16, amended: for any grid of two or more rows, whether or not a column
\* pair was identified, the mapping holds every pair that extract_all_specs
\* returns for the flattened table; a grid of fewer rows gives the empty
\* mapping.
C16_PatternPairsOfGridWithHeader ==
    result.op = "parse_table_specs" =>
    /\ result.ok
    /\ Len(input_table) >= 2 => HoldsPatternPairs(result.value[1], input_table)
    /\ Len(input_table) < 2 => result.value[1] = << >>

\* No column pair was identified and only the first row holds what the
\* patterns find: the pairs are in the mapping.
C16_Witness ==
    /\ ParsedWithHeader
    /\ NameColumns(input_table) = {}
    /\ extract_all_specs(TableText(Tail(input_table))) = << >>
    /\ DictGet(result.value[1], <<"v", "o", "l", "t", "a", "g", "e">>, << >>) = <<"5", "V">>

\* The names of the patterns.
PatternNames == {PATTERNS[k][1] : k \in 1..Len(PATTERNS)}

\* The data rows parse_table_specs takes a pair from.
RowsWithPair(table) ==
    IF NameColumns(table) # {} /\ ValueColumns(table) # {}
    THEN PairRows(table, LastOf(NameColumns(table)), LastOf(ValueColumns(table)))
    ELSE {}

RowName(table, r) == strip(table[r][LastOf(NameColumns(table))])

RowValue(table, r) == strip(table[r][LastOf(ValueColumns(table))])

\* For the given data rows and the given pairs of the patterns: a name that
\* is a key of the patterns holds the value of the pattern, a name that is
\* no name of a pattern holds the value of its last row, and the pairs of
\* the patterns are in the mapping as well.
PatternFirst(specs, table, rows, found) ==
    \A r \in rows :
       /\ (\E k \in 1..Len(found) : found[k][1] = RowName(table, r)) =>
            DictGet(specs, RowName(table, r), << >>)
               = DictGet(found, RowName(table, r), << >>)
       /\ ( /\ RowName(table, r) \notin PatternNames
            /\ \A q \in rows : q > r => RowName(table, q) # RowName(table, r) ) =>
            /\ DictGet(specs, RowName(table, r), << >>) = RowValue(table, r)
            /\ \A k \in 1..Len(found) :
                  \E m \in 1..Len(specs) : specs[m] = found[k]

\* C17: a key of a row that is a key of the patterns as well holds the value
\* of the pattern; a key of a row that is no name of a pattern, be it by
\* letter case only, holds the value of its row, next to the keys of the
\* patterns.
C17_PatternValueOnSameKey ==
    ParsedWithHeader =>
    PatternFirst(result.value[1], input_table, RowsWithPair(input_table),
                 extract_all_specs(TableText(input_table)))

\* A row named voltage holds another value than the pattern finds and a row
\* named Voltage is there as well: both keys are in the mapping, voltage
\* with the value of the pattern.
C17_Witness ==
    /\ ParsedWithHeader
    /\ \E r \in RowsWithPair(input_table) :
          /\ RowName(input_table, r) = <<"v", "o", "l", "t", "a", "g", "e">>
          /\ RowValue(input_table, r) = <<"1", "2", " ", "v", "o", "l", "t", "s">>
    /\ DictGet(result.value[1], <<"v", "o", "l", "t", "a", "g", "e">>, << >>) = <<"5", "V">>
    /\ \E r \in RowsWithPair(input_table) :
          /\ RowName(input_table, r) = <<"V", "o", "l", "t", "a", "g", "e">>
          /\ DictGet(result.value[1], <<"V", "o", "l", "t", "a", "g", "e">>, << >>)
                = RowValue(input_table, r)

\* The data rows too short to hold both columns.
ShortRows(table) ==
    IF NameColumns(table) # {} /\ ValueColumns(table) # {}
    THEN {r \in 2..Len(table) :
            \/ Len(table[r]) < LastOf(NameColumns(table))
            \/ Len(table[r]) < LastOf(ValueColumns(table))}
    ELSE {}

\* Apart from the given keys of the patterns, every key of the mapping is
\* the name of one of the given rows.
FromLongRows(specs, table, rows, keys) ==
    \A k \in 1..Len(specs) :
       \/ specs[k][1] \in keys
       \/ \E r \in rows : RowName(table, r) = specs[k][1]

\* C18: parse_table_specs raises on no grid of strings, be it empty or of
\* rows of different lengths: the empty grid gives the empty mapping, and
\* a data row too short for both columns gives no pair and no fault.
C18_NoFaultOnAnyGrid ==
    result.op = "parse_table_specs" =>
    /\ result.ok
    /\ input_table = << >> => result.value[1] = << >>
    /\ Len(input_table) >= 2 =>
         FromLongRows(result.value[1], input_table,
                      RowsWithPair(input_table) \ ShortRows(input_table),
                      PatternKeys(input_table))

\* Both columns were identified, one data row is too short for them and
\* another one is not: the mapping holds the pair of the other one only.
C18_Witness ==
    /\ ParsedWithHeader
    /\ ShortRows(input_table) # {}
    /\ \E r \in ShortRows(input_table) :
          /\ input_table[r] # << >>
          /\ DictGet(result.value[1], strip(input_table[r][1]), << >>) = << >>
    /\ \E r \in RowsWithPair(input_table) :
          DictGet(result.value[1], RowName(input_table, r), << >>)
             = RowValue(input_table, r)

(***************************************************************************)
(* Properties of repeated calls (checked under SpecRepeat).                *)
(***************************************************************************)
ProjectValidators ==
    {"validate_project", "check_power_compatibility",
     "check_interface_availability"}

\* The diagnostic lists of a project, one after the other.
Diagnostics(p) ==
    p.compatibility_issues \o p.missing_components \o p.warnings
       \o p.recommendations

\* How often the sequence holds the element.
CountOf(list, element) ==
    Cardinality({k \in 1..Len(list) : list[k] = element})

Filled_not_none(value) == value # None

\* if value: of the loop, for a value that is None or a str.
Filled(value) == TruthyOpt(value)

RECURSIVE FilledFrom(_, _)
\* What the loop adds to filled_fields from the i-th value on.
FilledFrom(data, i) ==
    IF i > Len(data) THEN 0
    ELSE (IF Filled(data[i][2]) THEN 1 ELSE 0) + FilledFrom(data, i + 1)

calculate_confidence(data) ==
    LET total_fields == Len(data)
        filled_fields == FilledFrom(data, 1)
    IN  Returned("calculate_confidence",
                 IF total_fields > 0 THEN << filled_fields, total_fields >>
                 ELSE << 0, 1 >>)

CalculateConfidence ==
    Call(calculate_confidence(extracted_data))

FieldNames == << <<"v", "o", "l", "t", "a", "g", "e">>, <<"c", "u", "r", "r", "e", "n", "t">>, <<"p", "o", "w", "e", "r">>, <<"w", "e", "i", "g", "h", "t">>, <<"k", "v">> >>

FieldValues == {None, Some(<<>>), Some(<<"5", "V">>), Some(<<"0">>)}

RECURSIVE MappingsOf(_)
\* The mappings of the first n field names, and of fewer.
MappingsOf(n) ==
    IF n = 0 THEN {<< >>}
    ELSE LET fewer == MappingsOf(n - 1)
         IN  fewer \cup {Append(d, << FieldNames[n], v >>) :
                           d \in {d \in fewer : Len(d) = n - 1},
                           v \in FieldValues}

InitConfidence ==
    /\ extracted_data \in MappingsOf(MaxFields)
    /\ chunk_size = DefaultChunkSize
    /\ cli = NewChatCLI
    /\ orchestrator = NoOrchestrator
    /\ added = << >>
    /\ input_text = <<>>
    /\ input_table = << >>
    /\ project = NewProject(<<"b", "e", "n", "c", "h">>)
    /\ component = NewComponent(<<"M", "1">>, <<"m", "o", "t", "o", "r">>, <<"m", ".", "p", "d", "f">>)
    /\ result = NoResult
    /\ repeated = FALSE

NextConfidence == CalculateConfidence

SpecConfidence == InitConfidence /\ [][NextConfidence]_vars

(***************************************************************************)
(* Project.add_component and Project.get_components_by_type.  input_text   *)
(* is the component_type that is asked for.                                *)
(***************************************************************************)
\* Mutant of get_components_by_type: the types are compared without regard
\* to case.
get_components_by_type_lower(p, component_type) ==
    SelectSeq(p.components,
              LAMBDA c : lower(c.component_type) = lower(component_type))

get_components_by_type(p, component_type) ==
    SelectSeq(p.components, LAMBDA c : c.component_type = component_type)

GetComponentsByType ==
    Call(Returned("get_components_by_type",
                  get_components_by_type(project, input_text)))

ListedPool ==
    { NewComponent(<<"M", "1">>, <<"m", "o", "t", "o", "r">>, <<"m", ".", "p", "d", "f">>),
      WithVoltage(NewComponent(<<"M", "2">>, <<"m", "o", "t", "o", "r">>, <<"m", ".", "p", "d", "f">>), <<"1", "2", "V">>),
      NewComponent(<<"P", "1">>, <<"p", "r", "o", "c", "e", "s", "s", "o", "r">>, <<"p", ".", "p", "d", "f">>),
      NewComponent(<<"X", "1">>, <<"P", "r", "o", "c", "e", "s", "s", "o", "r">>, <<>>) }

AskedTypes == {<<"m", "o", "t", "o", "r">>, <<"p", "r", "o", "c", "e", "s", "s", "o", "r">>, <<"M", "o", "t", "o", "r">>, <<>>}

InitListed ==
    /\ project = NewProject(<<"b", "e", "n", "c", "h">>)
    /\ component = NewComponent(<<"M", "1">>, <<"m", "o", "t", "o", "r">>, <<"m", ".", "p", "d", "f">>)
    /\ input_text \in AskedTypes
    /\ input_table = << >>
    /\ result = NoResult
    /\ repeated = FALSE
    /\ Idle

AddListedComponent == AddComponent(ListedPool, MaxListedComponents)

NextListed == AddListedComponent \/ GetComponentsByType

SpecListed == InitListed /\ [][NextListed]_vars

(***************************************************************************)
(* parse_table_specs on grids with a name column and a value column: rows   *)
(* with cells to trim, with an empty cell, and with a name twice.           *)
(***************************************************************************)
PairHeaders ==
    { << <<"P", "a", "r", "a", "m", "e", "t", "e", "r">>, <<"V", "a", "l", "u", "e">> >>,
      << <<"T", "y", "p", "i", "c", "a", "l">>, <<"F", "e", "a", "t", "u", "r", "e">> >> }

PairDataRows ==
    { << <<" ", "R", "o", "t", "o", "r", " ">>, <<" ", "3", " ">> >>,
      << <<"R", "o", "t", "o", "r">>, <<"4">> >>,
      << <<"C", "o", "l", "o", "r">>, <<" ">> >>,
      << <<>>, <<"9">> >>,
      << <<"m", "a", "x">>, <<"5", "V">> >>,
      << <<"v", "o", "l", "t", "a", "g", "e">>, <<"1", "2", " ", "v", "o", "l", "t", "s">> >> }

RECURSIVE PairRowsOf(_)
\* The sequences of up to n of these rows.
PairRowsOf(n) ==
    IF n = 0 THEN {<< >>}
    ELSE LET fewer == PairRowsOf(n - 1)
         IN  fewer \cup {Append(rows, r) : rows \in fewer, r \in PairDataRows}

InitPairs ==
    /\ input_table \in {<< first >> \o rows : first \in PairHeaders,
                                               rows \in PairRowsOf(MaxPairRows)}
    /\ input_text = <<>>
    /\ project = NewProject(<<"b", "e", "n", "c", "h">>)
    /\ component = NewComponent(<<"M", "1">>, <<"m", "o", "t", "o", "r">>, <<"m", ".", "p", "d", "f">>)
    /\ result = NoResult
    /\ repeated = FALSE
    /\ Idle

NextPairs == ParseTableSpecs

SpecPairs == InitPairs /\ [][NextPairs]_vars

(***************************************************************************)
(* extract_all_specs and _extract_pattern on texts of pieces that several   *)
(* patterns match.  A call of _extract_pattern is recorded with the name it *)
(* looked up: its value is the pair << pattern_name, returned >>.           *)
(***************************************************************************)
ExtractPieces ==
    {<<"5", "V", " ">>, <<"5", "0", "0", "m", "A", "h", " ">>, <<"1", "0", "0", "M", "H", "z", " ">>, <<"5", " ", "c", "h", "a", "n", "n", "e", "l", "s", " ">>, <<"2", " ", "A">>, <<"r", "a", "t", "e", "d", " ">>}

LookedUp == {<<"v", "o", "l", "t", "a", "g", "e">>, <<"t", "e", "m", "p", "e", "r", "a", "t", "u", "r", "e">>, <<"t", "o", "r", "q", "u", "e">>, <<>>}

ExtractPattern ==
    \E pattern_name \in LookedUp :
       Call(Returned("_extract_pattern",
                     << pattern_name, extract_pattern(input_text, pattern_name) >>))

InitExtract == InitText(TextsOf(ExtractPieces, MaxExtractPieces))

NextExtract == ExtractAllSpecs \/ ExtractPattern

SpecExtract == InitExtract /\ [][NextExtract]_vars

(***************************************************************************)
(* The operations of the engine on a project that was created with or       *)
(* without diagnostics and a power budget, the component validators being   *)
(* applied to the components attached to it.                                *)
(***************************************************************************)
ReviewedProjects ==
    { NewProject(<<"F", "P", "V", " ", "D", "R", "O", "N", "E">>),
      [NewProject(<<"b", "e", "n", "c", "h">>) EXCEPT
         !.total_power_budget = << << <<"t", "o", "t", "a", "l", "_", "c", "u", "r", "r", "e", "n", "t", "_", "a">>, 45 >> >>,
         !.compatibility_issues = << Msg(<<"E", "S", "C", " ", "m", "a", "x", " ", "c", "u", "r", "r", "e", "n", "t", " ", "m", "a", "y", " ", "b", "e", " ", "i", "n", "s", "u", "f", "f", "i", "c", "i", "e", "n", "t">>),
                                     Msg(<<"V", "o", "l", "t", "a", "g", "e", " ", "m", "i", "s", "m", "a", "t", "c", "h", " ", "d", "e", "t", "e", "c", "t", "e", "d">>) >>,
         !.missing_components = << Msg(<<"g", "p", "s">>) >>,
         !.warnings = << Msg(<<"N", "o", " ", "c", "o", "m", "p", "o", "n", "e", "n", "t", "s", " ", "f", "o", "u", "n", "d", " ", "i", "n", " ", "p", "r", "o", "j", "e", "c", "t">>),
                         Msg(<<"c", "h", "e", "c", "k", " ", "t", "h", "e", " ", "w", "i", "r", "i", "n", "g">>) >>,
         !.recommendations = << Msg(<<"a", "d", "d", " ", "a", " ", "p", "o", "w", "e", "r", " ", "m", "o", "d", "u", "l", "e">>) >>] }

EnginePool ==
    { [WithVoltage(NewComponent(<<"X", "1">>, <<"P", "r", "o", "c", "e", "s", "s", "o", "r">>, <<>>), <<"1", "2", "V", "O", "L", "T", "S">>)
         EXCEPT !.power.capacity = Some(<<"2", "2", "0", "0">>)],
      [WithVoltage(NewComponent(<<"B", "1">>, <<"b", "a", "t", "t", "e", "r", "y">>, <<"b", ".", "p", "d", "f">>), <<"5", "V">>)
         EXCEPT !.power.current_rating = Some(<<"6", "0", "A">>)] }

ValidateAttachedComponent ==
    \E i \in 1..Len(project.components) :
       Call(validate_component(project.components[i]))

CheckAttachedCompleteness ==
    \E i \in 1..Len(project.components) :
       Call(check_completeness(project.components[i]))

InitEngine ==
    /\ project \in ReviewedProjects
    /\ component = NewComponent(<<"M", "1">>, <<"m", "o", "t", "o", "r">>, <<"m", ".", "p", "d", "f">>)
    /\ input_text = <<>>
    /\ input_table = << >>
    /\ result = NoResult
    /\ repeated = FALSE
    /\ Idle

AddEngineComponent == AddComponent(EnginePool, MaxEngineComponents)

NextEngine ==
    \/ AddEngineComponent
    \/ ValidateAttachedComponent
    \/ CheckAttachedCompleteness
    \/ ValidateProject
    \/ CheckPowerCompatibility
    \/ CheckInterfaceAvailability

SpecEngine == InitEngine /\ [][NextEngine]_vars

(***************************************************************************)
(* A component built from what parse_power_specs returns for a text, with   *)
(* a name, a type and a source document, and given to validate_component.   *)
(***************************************************************************)
ParsedPieces ==
    {<<"I", "n", "p", "u", "t", ":", " ">>, <<"1", "2", "V", " ">>, <<"5", " ", "V", " ">>, <<"2", " ", "A", ",", " ">>, <<"5", "0", "0", "m", "A", " ">>, <<"1", "0", " ", "W", " ">>,
     <<"2", "2", "0", "0", " ", "m", "A", "h", " ">>}

\* Component(name=..., component_type=..., source_document=...,
\*           power=parser.parse_power_specs(text))
ComponentOf(parsed) ==
    [NewComponent(<<"M", "1">>, <<"m", "o", "t", "o", "r">>, <<"m", ".", "p", "d", "f">>) EXCEPT !.power = parsed.value[1]]

ValidateParsedComponent ==
    Call(validate_component(ComponentOf(parse_power_specs(input_text))))

InitParsedPower == InitText(TextsOf(ParsedPieces, MaxParsedPieces))

NextParsedPower == ValidateParsedComponent

SpecParsedPower == InitParsedPower /\ [][NextParsedPower]_vars

(***************************************************************************)
(* ChatCLI.process_message, with the calls it makes: generate_response,     *)
(* OrchestratorAgent.process and ClaudeAgent.chat.  cli.sent is the list of *)
(* messages that was sent to the model for the latest input, empty when     *)
(* none was.  The model answers with a text or fails.                       *)
(***************************************************************************)
\* datetime.now().strftime("%H:%M:%S")
Now == <<"1", "2", ":", "0", "0", ":", "0", "0">>

\* ChatCLI.add_to_history(role, content)
add_to_history(history, role, content) ==
    Append(history, [role |-> role, content |-> content, timestamp |-> Now])

\* The conversation_messages of generate_response: role and content of
\* every entry of the history.
conversation_messages(history) ==
    [i \in 1..Len(history) |->
       [role |-> history[i].role, content |-> history[i].content]]

RECURSIVE ContextFrom(_, _)
\* The loop of get_full_pdf_context from entry k of the cache on.
ContextFrom(cache, k) ==
    IF k > Len(cache) THEN <<>>
    ELSE <<"\n", "-", "-", "-", " ">> \o cache[k][1] \o <<" ", "-", "-", "-", "\n">> \o cache[k][2] \o <<"\n">>
         \o ContextFrom(cache, k + 1)

get_full_pdf_context(o) ==
    IF o.pdf_content_cache = << >> THEN <<>>
    ELSE <<"\n", "=", "=", "=", " ", "A", "V", "A", "I", "L", "A", "B", "L", "E", " ", "C", "O", "M", "P", "O", "N", "E", "N", "T", "S", " ", "A", "N", "D", " ", "D", "O", "C", "U", "M", "E", "N", "T", "S", " ", "(", "f", "r", "o", "m", " ", "d", "a", "t", "a", "/", " ", "f", "o", "l", "d", "e", "r", ")", " ", "=", "=", "=", "\n">>
         \o ContextFrom(o.pdf_content_cache, 1)
         \o <<"\n", "=", "=", "=", " ", "E", "N", "D", " ", "O", "F", " ", "A", "V", "A", "I", "L", "A", "B", "L", "E", " ", "D", "O", "C", "U", "M", "E", "N", "T", "S", " ", "=", "=", "=", "\n">>

\* The messages of ClaudeAgent.chat(message, conversation_history).
chat(message, conversation_history) ==
    Append(conversation_history, [role |-> "user", content |-> message])

\* The messages OrchestratorAgent.process sends for the request of
\* generate_response: the user message with the context of the documents,
\* after the conversation history.
process_messages(o, user_message, conversation_history) ==
    chat(user_message \o <<"\n">> \o get_full_pdf_context(o), conversation_history)

\* What generate_response returns for the response of the orchestrator.
ResponseText(response) ==
    IF response.success THEN response.result
    ELSE <<"E", "r", "r", "o", "r", ":", " ">> \o response.error

ModelResponses ==
    { [success |-> TRUE, result |-> <<"I", "t", " ", "n", "e", "e", "d", "s", " ", "1", "2", "V", ".">>, error |-> <<>>],
      [success |-> FALSE, result |-> <<>>,
       error |-> <<"E", "r", "r", "o", "r", " ", "c", "a", "l", "l", "i", "n", "g", " ", "C", "l", "a", "u", "d", "e", " ", "A", "P", "I", ":", " ", "t", "i", "m", "e", "o", "u", "t">>] }

ChatInputs == {<<"h", "i">>, <<"W", "h", "a", "t", " ", "v", "o", "l", "t", "a", "g", "e", "?">>}

Commands == {<<"/", "h", "e", "l", "p">>, <<"/", "c", "l", "e", "a", "r">>, <<"/", "h", "i", "s", "t", "o", "r", "y">>, <<"/", "d", "e", "b", "u", "g">>, <<"/", "e", "x", "i", "t">>}

CommandInputs == {<<"/", "c", "l", "e", "a", "r">>, <<"/", "H", "e", "l", "p", " ">>}

\* process_message(user_input) for an input handle_command handles.
ProcessCommand ==
    /\ \E user_input \in CommandInputs :
         /\ user_input[1] = "/"
         /\ strip(lower(user_input)) \in Commands
         /\ cli' = [conversation_history |->
                      IF strip(lower(user_input)) = <<"/", "c", "l", "e", "a", "r">> THEN << >>
                      ELSE cli.conversation_history,
                    sent |-> << >>]
    /\ UNCHANGED <<inputs, orchestrator, added, result, repeated>>

\* process_message(user_input) for any other input, in a conversation of
\* fewer than MaxTurns turns.
ProcessMessage ==
    /\ Len(cli.conversation_history) < 2 * MaxTurns
    /\ \E user_input \in ChatInputs, response \in ModelResponses :
         /\ ~(user_input[1] = "/" /\ strip(lower(user_input)) \in Commands)
         /\ LET history == add_to_history(cli.conversation_history, "user",
                                          user_input)
            IN  cli' = [conversation_history |->
                          add_to_history(history, "assistant",
                                         ResponseText(response)),
                        sent |-> process_messages(orchestrator, user_input,
                                                  conversation_messages(history))]
    /\ UNCHANGED <<inputs, orchestrator, added, result, repeated>>

LoadedOrchestrators ==
    { NoOrchestrator,
      [NoOrchestrator EXCEPT
         !.available_pdfs = << <<"e", "s", "c", ".", "p", "d", "f">> >>,
         !.pdf_content_cache =
            << << <<"e", "s", "c", ".", "p", "d", "f">>, <<"=", "=", "=", " ", "O", "V", "E", "R", "V", "I", "E", "W", " ", "=", "=", "=", "\n", "3", "0", "A", " ", "E", "S", "C", "\n">> >> >>] }

InitChat ==
    /\ cli = NewChatCLI
    /\ orchestrator \in LoadedOrchestrators
    /\ extracted_data = << >>
    /\ chunk_size = DefaultChunkSize
    /\ added = << >>
    /\ input_text = <<>>
    /\ input_table = << >>
    /\ project = NewProject(<<"b", "e", "n", "c", "h">>)
    /\ component = NewComponent(<<"M", "1">>, <<"m", "o", "t", "o", "r">>, <<"m", ".", "p", "d", "f">>)
    /\ result = NoResult
    /\ repeated = FALSE

NextChat == ProcessCommand \/ ProcessMessage

SpecChat == InitChat /\ [][NextChat]_vars

(***************************************************************************)
(* OrchestratorAgent.chunk_text.                                           *)
(***************************************************************************)
\* text.replace('\n', ' ')
ReplaceNewlines(text) ==
    [i \in 1..Len(text) |-> IF text[i] = "\n" THEN " " ELSE text[i]]

RECURSIVE SplitFrom(_, _, _)
\* s.split('. '): the pieces from the one that starts at start on, the
\* separator being looked for from position i on.
SplitFrom(s, start, i) ==
    IF i + 1 > Len(s) THEN << SubSeq(s, start, Len(s)) >>
    ELSE IF s[i] = "." /\ s[i + 1] = " "
         THEN << SubSeq(s, start, i - 1) >> \o SplitFrom(s, i + 2, i + 2)
         ELSE SplitFrom(s, start, i + 1)

Sentences(text) == SplitFrom(ReplaceNewlines(text), 1, 1)

RECURSIVE ChunksFrom(_, _, _, _, _)
\* The loop over the sentences from the k-th on, and the last append.
ChunksFrom(sentences, k, chunks, current_chunk, size) ==
    IF k > Len(sentences)
    THEN IF TruthyStr(current_chunk)
         THEN Append(chunks, strip(current_chunk)) ELSE chunks
    ELSE IF Len(current_chunk) + Len(sentences[k]) + 2 <= size
         THEN ChunksFrom(sentences, k + 1, chunks,
                         current_chunk \o sentences[k] \o <<".", " ">>, size)
         ELSE ChunksFrom(sentences, k + 1,
                         IF TruthyStr(current_chunk)
                         THEN Append(chunks, strip(current_chunk)) ELSE chunks,
                         sentences[k] \o <<".", " ">>, size)

\* Mutant of chunk_text: a short text is split as a long one is.
chunk_text_always_split(text, size) ==
    ChunksFrom(Sentences(text), 1, << >>, <<>>, size)

chunk_text(text, size) ==
    IF Len(text) <= size THEN << text >>
    ELSE ChunksFrom(Sentences(text), 1, << >>, <<>>, size)

ChunkText ==
    Call(Returned("chunk_text", chunk_text(input_text, chunk_size)))

ChunkChars == {"a", ".", " ", "\n"}

RECURSIVE StringsOf(_)
\* The texts of up to n of these characters.
StringsOf(n) ==
    IF n = 0 THEN {<< >>}
    ELSE LET shorter == StringsOf(n - 1)
         IN  shorter \cup {Append(s, c) : s \in shorter, c \in ChunkChars}

InitChunk ==
    /\ input_text \in StringsOf(MaxTextLen)
    /\ chunk_size \in 1..MaxChunkSize
    /\ extracted_data = << >>
    /\ cli = NewChatCLI
    /\ orchestrator = NoOrchestrator
    /\ added = << >>
    /\ input_table = << >>
    /\ project = NewProject(<<"b", "e", "n", "c", "h">>)
    /\ component = NewComponent(<<"M", "1">>, <<"m", "o", "t", "o", "r">>, <<"m", ".", "p", "d", "f">>)
    /\ result = NoResult
    /\ repeated = FALSE

NextChunk == ChunkText

SpecChunk == InitChunk /\ [][NextChunk]_vars

(***************************************************************************)
(* OrchestratorAgent.preload_pdf_context, as __init__ calls it after        *)
(* scan_data_folder.  orchestrator.mtimes holds the modification time of    *)
(* each PDF of the data folder and orchestrator.cache_file the cache file:  *)
(* whether it exists, whether json.load reads it, and the entries it holds. *)
(* The extraction service answers for each PDF with an overview and a full  *)
(* text, either of which it may fail to give; it finds no table.  An entry  *)
(* of the cache is kept without its extracted_at time stamp.                *)
(***************************************************************************)
NoCacheFile == [exists |-> FALSE, readable |-> FALSE, data |-> << >>]

UnreadableCacheFile == [exists |-> TRUE, readable |-> FALSE, data |-> << >>]

load_cache(cache_file) ==
    IF ~cache_file.exists THEN << >>
    ELSE IF ~cache_file.readable THEN << >>
         ELSE cache_file.data

save_cache(cache_data) ==
    [exists |-> TRUE, readable |-> TRUE, data |-> cache_data]

RECURSIVE IntStr(_)
\* str(n) of a natural number.
IntStr(n) ==
    IF n < 10 THEN << Digits[n + 1] >>
    ELSE IntStr(n \div 10) \o << Digits[(n % 10) + 1] >>

\* The comprehensive_content of an overview and the chunks of the text.
ComprehensiveContent(overview, text_chunks) ==
    <<"=", "=", "=", " ", "O", "V", "E", "R", "V", "I", "E", "W", " ", "=", "=", "=", "\n">> \o overview \o <<"\n">>
    \o (IF text_chunks = << >> THEN <<>>
        ELSE IF Len(text_chunks) = 1
             THEN <<"\n", "=", "=", "=", " ", "F", "U", "L", "L", " ", "T", "E", "X", "T", " ", "=", "=", "=", "\n">> \o text_chunks[1] \o <<"\n">>
             ELSE <<"\n", "=", "=", "=", " ", "F", "U", "L", "L", " ", "T", "E", "X", "T", " ", "(">> \o IntStr(Len(text_chunks))
                  \o <<" ", "c", "h", "u", "n", "k", "s", ")", " ", "=", "=", "=", "\n">> \o <<"C", "h", "u", "n", "k", " ", "1", " ", "o", "f", " ">>
                  \o IntStr(Len(text_chunks)) \o <<":", "\n">>
                  \o SubSeq(text_chunks[1], 1,
                            IF Len(text_chunks[1]) < 3000
                            THEN Len(text_chunks[1]) ELSE 3000)
                  \o <<".", ".", ".", "\n">> \o <<"\n", "[", "A", "d", "d", "i", "t", "i", "o", "n", "a", "l", " ", "c", "h", "u", "n", "k", "s", " ", "a", "v", "a", "i", "l", "a", "b", "l", "e", " ", "i", "n", " ", "c", "a", "c", "h", "e", "]", "\n">>)

\* The entry of the cache for what the service extracted.
CacheEntry(overview, text_chunks, pdf_mtime) ==
    [overview |-> overview, text_chunks |-> text_chunks,
     chunk_count |-> Len(text_chunks), tables |-> << >>,
     content |-> ComprehensiveContent(overview, text_chunks),
     mtime |-> pdf_mtime]

\* f"(Error loading document: {e})"
ErrorPlaceholder == <<"(", "E", "r", "r", "o", "r", " ", "l", "o", "a", "d", "i", "n", "g", " ", "d", "o", "c", "u", "m", "e", "n", "t", ":", " ", "s", "e", "r", "v", "i", "c", "e", " ", "u", "n", "a", "v", "a", "i", "l", "a", "b", "l", "e", ")">>

HasKey(d, key) == \E i \in 1..Len(d) : d[i][1] = key

\* Mutant of UseCached: an entry of the cache is used whatever its mtime.
UseCached_any_mtime(cache_data, pdf_name, pdf_mtime) ==
    HasKey(cache_data, pdf_name)

\* if pdf_name in cache_data: ... if cached_mtime == pdf_mtime:
UseCached(cache_data, pdf_name, pdf_mtime) ==
    /\ HasKey(cache_data, pdf_name)
    /\ DictGet(cache_data, pdf_name, << >>).mtime = pdf_mtime

\* One round of the loop, for the PDF pdf_name of modification time
\* pdf_mtime and what the service gives for it; acc holds cache_data,
\* pdf_content_cache and needs_save, and the PDFs the service was called for.
PreloadOne(acc, pdf_name, pdf_mtime, given) ==
    IF UseCached(acc.cache_data, pdf_name, pdf_mtime)
    THEN [acc EXCEPT !.pdf_content_cache =
             DictSet(@, pdf_name,
                     DictGet(acc.cache_data, pdf_name, << >>).content)]
    ELSE IF given.overview = None
         THEN [acc EXCEPT !.extracted = Append(@, pdf_name),
                          !.pdf_content_cache =
                             DictSet(@, pdf_name, ErrorPlaceholder)]
         ELSE LET text_chunks ==
                     IF TruthyOpt(given.full_text)
                     THEN chunk_text(given.full_text[1], DefaultChunkSize)
                     ELSE << >>
                  entry == CacheEntry(given.overview[1], text_chunks, pdf_mtime)
              IN  [acc EXCEPT !.extracted = Append(@, pdf_name),
                              !.pdf_content_cache =
                                 DictSet(@, pdf_name, entry.content),
                              !.cache_data = DictSet(@, pdf_name, entry),
                              !.needs_save = TRUE]

RECURSIVE PreloadFrom(_, _, _, _)
\* The loop over available_pdfs from the k-th on.
PreloadFrom(o, k, service, acc) ==
    IF k > Len(o.available_pdfs) THEN acc
    ELSE PreloadFrom(o, k + 1, service,
                     PreloadOne(acc, o.available_pdfs[k],
                                DictGet(o.mtimes, o.available_pdfs[k], 0),
                                service[k]))

\* The orchestrator after the loop: the cache is saved if needs_save.
Preloaded(o, acc) ==
    [o EXCEPT !.pdf_content_cache = acc.pdf_content_cache,
              !.cache_file = IF acc.needs_save THEN save_cache(acc.cache_data)
                             ELSE @,
              !.extracted = acc.extracted,
              !.saved = acc.needs_save]

preload_pdf_context(o, service) ==
    Preloaded(o, PreloadFrom(o, 1, service,
                             [cache_data |-> load_cache(o.cache_file),
                              pdf_content_cache |-> o.pdf_content_cache,
                              needs_save |-> FALSE, extracted |-> << >>]))

ServiceGives ==
    { [overview |-> None, full_text |-> None],
      [overview |-> Some(<<"3", "0", "A", " ", "E", "S", "C">>), full_text |-> Some(<<"R", "a", "t", "e", "d", " ", "3", "0", "A", ".", " ", "1", "2", "V", ".">>)],
      [overview |-> Some(<<"3", "0", "A", " ", "E", "S", "C">>), full_text |-> None] }

\* OrchestratorAgent.__init__: the pre-loaded contents start empty.
StartOrchestrator ==
    /\ \E service \in [1..Len(orchestrator.available_pdfs) -> ServiceGives] :
         orchestrator' =
            preload_pdf_context([orchestrator EXCEPT !.pdf_content_cache = << >>],
                                service)
    /\ result' = Returned("preload_pdf_context", None)
    /\ repeated' = (result.op = "preload_pdf_context")
    /\ UNCHANGED <<inputs, cli, added>>

\* A PDF of the data folder is replaced by a newer one.
TouchPdf ==
    /\ \E k \in 1..Len(orchestrator.mtimes) :
         /\ orchestrator.mtimes[k][2] < MaxMtime
         /\ orchestrator' =
              [orchestrator EXCEPT !.mtimes[k][2] = @ + 1]
    /\ result' = NoResult
    /\ repeated' = FALSE
    /\ UNCHANGED <<inputs, cli, added>>

\* The cache file is removed or damaged between two runs.
LoseCacheFile ==
    /\ orchestrator.cache_file.exists
    /\ orchestrator.cache_file.readable
    /\ orchestrator' \in
         {[orchestrator EXCEPT !.cache_file = f] :
            f \in {NoCacheFile, UnreadableCacheFile}}
    /\ result' = NoResult
    /\ repeated' = FALSE
    /\ UNCHANGED <<inputs, cli, added>>

InitPreload ==
    /\ orchestrator =
         [NoOrchestrator EXCEPT
            !.available_pdfs = << <<"e", "s", "c", ".", "p", "d", "f">>, <<"f", "c", ".", "p", "d", "f">> >>,
            !.mtimes = << << <<"e", "s", "c", ".", "p", "d", "f">>, 1 >>, << <<"f", "c", ".", "p", "d", "f">>, 1 >> >>,
            !.cache_file = NoCacheFile]
    /\ cli = NewChatCLI
    /\ extracted_data = << >>
    /\ chunk_size = DefaultChunkSize
    /\ added = << >>
    /\ input_text = <<>>
    /\ input_table = << >>
    /\ project = NewProject(<<"b", "e", "n", "c", "h">>)
    /\ component = NewComponent(<<"M", "1">>, <<"m", "o", "t", "o", "r">>, <<"m", ".", "p", "d", "f">>)
    /\ result = NoResult
    /\ repeated = FALSE

NextPreload == StartOrchestrator \/ TouchPdf \/ LoseCacheFile

SpecPreload == InitPreload /\ [][NextPreload]_vars

(***************************************************************************)
(* Claims C21 to C30.                                                      *)
(***************************************************************************)
\* The entries of a mapping whose value is populated: neither None nor "".
PopulatedEntries(data) ==
    {i \in 1..Len(data) : data[i][2] # None /\ data[i][2] # Some(<<>>)}

\* The quotient q = << numerator, denominator >> is k / n, or 0 when n = 0.
IsFraction(q, k, n) ==
    /\ q[2] > 0
    /\ IF n = 0 THEN q[1] = 0 ELSE q[1] * n = k * q[2]

ConfidenceClaim(q, k, n) ==
    /\ IsFraction(q, k, n)
    /\ (n = 0) => (q[1] = 0)
    /\ (q[1] = q[2]) <=> (n > 0 /\ k = n)
    /\ (0 < k /\ k < n) => (0 < q[1] /\ q[1] < q[2])
    /\ 0 <= q[1] /\ q[1] <= q[2]

\* C21: calculate_confidence returns the number of populated entries of the
\* mapping divided by the number of its entries: 0.0 for the empty mapping,
\* 1.0 exactly when the mapping is not empty and every value is populated,
\* strictly between 0 and 1 when some values but not all are populated, and
\* never a value outside [0, 1].
C21_ConfidenceIsFractionPopulated ==
    result.op = "calculate_confidence" =>
      /\ result.ok
      /\ ConfidenceClaim(result.value[1],
                         Cardinality(PopulatedEntries(extracted_data)),
                         Len(extracted_data))

\* The confidence of a mapping with a populated value, an empty string and
\* a None was computed.
C21_Witness ==
    /\ result.op = "calculate_confidence"
    /\ \E i, j, k \in 1..Len(extracted_data) :
         /\ extracted_data[i][2] = None
         /\ extracted_data[j][2] = Some(<<>>)
         /\ extracted_data[k][2] \notin {None, Some(<<>>)}
    /\ result.value[1][1] * 3 = result.value[1][2]

\* The positions of the components of the given type, in increasing order.
RECURSIVE PositionsOfType(_, _, _)
PositionsOfType(components, t, n) ==
    IF n = 0 THEN << >>
    ELSE PositionsOfType(components, t, n - 1)
         \o (IF components[n].component_type = t THEN << n >> ELSE << >>)

ListedOfType(components, positions) ==
    [k \in 1..Len(positions) |-> components[positions[k]]]

\* C22: after any sequence of add_component calls the components of the
\* Project are the added components in the order of the calls, and
\* get_components_by_type(t) returns the components whose component_type
\* equals t, in that order, and leaves the project as it was.
C22_ComponentsInCallOrder ==
    [][/\ project'.components = added'
       /\ (result'.op = "get_components_by_type") =>
            /\ result'.value[1] =
                 ListedOfType(added, PositionsOfType(added, input_text,
                                                     Len(added)))
            /\ project' = project]_vars

\* The same component was added twice with another between, and the
\* components of its type were asked for.
C22_Witness ==
    /\ result.op = "get_components_by_type"
    /\ Len(project.components) = 3
    /\ project.components[1] = project.components[3]
    /\ project.components[1] # project.components[2]
    /\ Len(result.value[1]) = 2

\* The value of the last of the given rows that holds the given name.
LastValue(table, rows, name) ==
    RowValue(table, CHOOSE r \in rows :
                       /\ RowName(table, r) = name
                       /\ \A q \in rows : RowName(table, q) = name => q <= r)

\* The mapping holds, for the given rows, the trimmed name of each with the
\* trimmed value of the last row of that name, unless the name is one of
\* the replaced keys; and apart from the other keys it holds nothing else.
EmitsRowPairs(specs, table, rows, replaced, other) ==
    /\ \A r \in rows :
          RowName(table, r) \notin replaced =>
          DictGet(specs, RowName(table, r), << >>)
             = LastValue(table, rows, RowName(table, r))
    /\ \A k \in 1..Len(specs) :
          specs[k][1] \notin other =>
          \E r \in rows : /\ RowName(table, r) = specs[k][1]
                          /\ RowValue(table, r) = specs[k][2]

BothColumns(table) ==
    Len(table) >= 2 /\ NameColumns(table) # {} /\ ValueColumns(table) # {}

\* C23 as stated: with both columns identified, the mapping holds the pair
\* (trimmed name, trimmed value) of each data row with both cells non-empty,
\* the later row's value for a name of two rows; the header row and a row
\* with an empty cell give no pair.
C23_RowPairsAsTheyAre ==
    (result.op = "parse_table_specs" /\ BothColumns(input_table)) =>
    /\ result.ok
    /\ EmitsRowPairs(result.value[1], input_table,
                     RowsWithPair(input_table), {}, PatternKeys(input_table))

\* C23, amended: with both columns identified, the mapping holds the pair
\* (trimmed name, trimmed value) of each data row with both cells non-empty,
\* the later row's value for a name of two rows, unless the name is the
\* name of a pattern that matches in the text of the table, whose match
\* then replaces the value; the header row and a row with an empty cell
\* give no pair.
C23_RowPairsUnlessPatternKey ==
    (result.op = "parse_table_specs" /\ BothColumns(input_table)) =>
    /\ result.ok
    /\ EmitsRowPairs(result.value[1], input_table,
                     RowsWithPair(input_table), PatternKeys(input_table),
                     PatternKeys(input_table))

\* Two rows of one name, the earlier with cells to trim, a header that
\* would make a pair, and a row with an empty value cell: the mapping holds
\* the pair of the later row and nothing else.
C23_Witness ==
    /\ result.op = "parse_table_specs"
    /\ input_table[1] = << <<"P", "a", "r", "a", "m", "e", "t", "e", "r">>, <<"V", "a", "l", "u", "e">> >>
    /\ Len(input_table) = 3
    /\ \/ /\ input_table[2] = << <<" ", "R", "o", "t", "o", "r", " ">>, <<" ", "3", " ">> >>
          /\ input_table[3] = << <<"R", "o", "t", "o", "r">>, <<"4">> >>
          /\ result.value[1] = << << <<"R", "o", "t", "o", "r">>, <<"4">> >> >>
       \/ /\ input_table[2] = << <<"C", "o", "l", "o", "r">>, <<" ">> >>
          /\ input_table[3] = << <<" ", "R", "o", "t", "o", "r", " ">>, <<" ", "3", " ">> >>
          /\ result.value[1] = << << <<"R", "o", "t", "o", "r">>, <<"3">> >> >>

\* The places of the text where the pattern matches.
MatchStarts(text, pattern) ==
    {i \in 1..Len(text) : MatchEnd(text, i, pattern, TRUE) # 0}

\* The whole text of the leftmost match of the pattern, which matches.
LeftmostMatch(text, pattern, starts) ==
    LET i == CHOOSE i \in starts : \A j \in starts : i <= j
    IN  SubSeq(text, i, MatchEnd(text, i, pattern, TRUE) - 1)

\* What is found for the pattern of the given name: nothing for a name that
\* is not registered or a pattern that matches nowhere.
FoundFor(text, name) ==
    IF name \notin PatternNames THEN None
    ELSE LET pattern == DictGet(PATTERNS, name, None)
             starts  == MatchStarts(text, pattern)
         IN  IF starts = {} THEN None
             ELSE Some(LeftmostMatch(text, pattern, starts))

\* C24: the keys of the mapping extract_all_specs returns are the names of
\* the registered patterns that match somewhere in the text, each with the
\* whole text of the leftmost match of its pattern, whatever the other
\* patterns match; looking up a name that is not registered gives None and
\* no fault.
C24_MatchingPatternsWithLeftmostMatch ==
    /\ result.op = "extract_all_specs" =>
         /\ result.ok
         /\ \A k \in 1..Len(PATTERNS) :
               FoundFor(input_text, PATTERNS[k][1])
                  = (IF DictGet(result.value[1], PATTERNS[k][1], << >>) = << >>
                     THEN None
                     ELSE Some(DictGet(result.value[1], PATTERNS[k][1], << >>)))
         /\ \A m \in 1..Len(result.value[1]) :
               result.value[1][m][1] \in PatternNames
    /\ result.op = "_extract_pattern" =>
         /\ result.ok
         /\ result.value[1][2] = FoundFor(input_text, result.value[1][1])

\* Three patterns matched, two of them in overlapping text, each with its
\* own leftmost match.
C24_Witness ==
    /\ result.op = "extract_all_specs"
    /\ DictGet(result.value[1], <<"t", "e", "m", "p", "e", "r", "a", "t", "u", "r", "e">>, << >>) = <<"5", " ", "c">>
    /\ DictGet(result.value[1], <<"c", "h", "a", "n", "n", "e", "l", "s">>, << >>) = <<"5", " ", "c", "h">>
    /\ DictGet(result.value[1], <<"v", "o", "l", "t", "a", "g", "e">>, << >>) = <<"5", "V">>

\* The sequence s is the beginning of the sequence t.
IsPrefix(s, t) == Len(s) <= Len(t) /\ SubSeq(t, 1, Len(s)) = s

\* C25: no operation of the engine removes or reorders an entry of the
\* compatibility_issues, missing_components, warnings or recommendations of
\* a Project: across every step, what each list held is the beginning of
\* what it holds.
C25_DiagnosticsKeepTheirPrefix ==
    [][/\ IsPrefix(project.compatibility_issues, project'.compatibility_issues)
       /\ IsPrefix(project.missing_components, project'.missing_components)
       /\ IsPrefix(project.warnings, project'.warnings)
       /\ IsPrefix(project.recommendations, project'.recommendations)]_vars

\* A project that was created with diagnostics got a component and was
\* validated, with warnings returned: its lists hold what they held.
C25_Witness ==
    /\ result.op = "validate_project"
    /\ result.list # << >>
    /\ project.components # << >>
    /\ Len(project.warnings) = 2
    /\ Len(project.compatibility_issues) = 2
    /\ project.recommendations # << >>

ValidatorOperations ==
    {"validate_component", "check_completeness", "validate_project",
     "check_power_compatibility", "check_interface_availability"}

\* C26: validate_component, check_completeness, validate_project,
\* check_power_compatibility and check_interface_availability leave the
\* components of the project, its total_power_budget and every field of
\* every attached component as they were.
C26_ValidatorsLeaveComponentsAlone ==
    [][(result'.op \in ValidatorOperations) =>
          /\ project'.components = project.components
          /\ project'.total_power_budget = project.total_power_budget
          /\ component' = component]_vars

\* The completeness of a component attached to a project with a power
\* budget was computed: the component has no confidence and the budget is
\* there.
C26_Witness ==
    /\ result.op = "check_completeness"
    /\ result.total > 0
    /\ Len(project.components) = 2
    /\ \A i \in 1..2 : project.components[i].confidence = None
    /\ project.total_power_budget # << >>

\* C27: every populated field of the PowerSpec parse_power_specs returns has
\* the format the component validator asks of it, so that a component built
\* from it, with a name, a type and a source document, validates without
\* an error.
C27_ParsedPowerValidates ==
    result.op = "validate_component" => (result.ok /\ result.list = << >>)

\* The message is a message of the user that holds the input: the input
\* alone, or the input and after it the context of the documents.
CarriesInput(message, user_input) ==
    /\ message.role = "user"
    /\ Len(message.content) >= Len(user_input)
    /\ SubSeq(message.content, 1, Len(user_input)) = user_input
    /\ Len(message.content) > Len(user_input) =>
         message.content[Len(user_input) + 1] = "\n"

\* The list of messages holds the input once, as its last message, and no
\* two messages of the user in a row.
SentOnceAndLast(sent, user_input) ==
    /\ Cardinality({i \in 1..Len(sent) : CarriesInput(sent[i], user_input)}) = 1
    /\ CarriesInput(sent[Len(sent)], user_input)
    /\ \A i \in 1..(Len(sent) - 1) :
          ~(sent[i].role = "user" /\ sent[i + 1].role = "user")

\* C28: the list of messages sent to the model for the reply to an input
\* holds that input exactly once, as its last message, and never two
\* messages of role user in a row.
C28_InputSentOnceAndLast ==
    cli.sent # << >> =>
    SentOnceAndLast(cli.sent,
                    cli.conversation_history[Len(cli.conversation_history) - 1].content)

\* A sentence ends where a full stop is followed by a space or a newline.
SeparatorAt(text, i) ==
    /\ 1 <= i /\ i + 1 <= Len(text)
    /\ text[i] = "." /\ text[i + 1] \in {" ", "\n"}

\* The sentences of the text, from their first to their last character.
SentenceSpans(text) ==
    {span \in (1..(Len(text) + 1)) \X (0..Len(text)) :
       /\ span[2] >= span[1] - 1
       /\ span[1] = 1 \/ SeparatorAt(text, span[1] - 2)
       /\ span[2] = Len(text) \/ SeparatorAt(text, span[2] + 1)
       /\ \A k \in span[1]..(span[2] - 1) : ~SeparatorAt(text, k)}

\* The chunk is one sentence of the text that, with the full stop and the
\* space that follow it, is longer than size.
IsLongSentence(chunk, text, spans, size) ==
    \E span \in spans :
       /\ (span[2] - span[1] + 1) + 2 > size
       /\ chunk = strip(ReplaceNewlines(SubSeq(text, span[1], span[2])) \o <<".", " ">>)

\* A text no longer than size is returned as one unchanged chunk.
ShortTextUnchanged(chunks, text, size) ==
    Len(text) <= size => chunks = << text >>

EntriesOf(cache_file) ==
    IF cache_file.exists /\ cache_file.readable THEN cache_file.data ELSE << >>

\* The cache file holds an entry for the PDF with its current mtime.
UpToDate(o, pdf_name) ==
    \E i \in 1..Len(EntriesOf(o.cache_file)) :
       /\ EntriesOf(o.cache_file)[i][1] = pdf_name
       /\ \E k \in 1..Len(o.mtimes) :
             /\ o.mtimes[k][1] = pdf_name
             /\ o.mtimes[k][2] = EntriesOf(o.cache_file)[i][2].mtime

IsPlaceholder(content) ==
    /\ Len(content) >= 25
    /\ SubSeq(content, 1, 25) = <<"(", "E", "r", "r", "o", "r", " ", "l", "o", "a", "d", "i", "n", "g", " ", "d", "o", "c", "u", "m", "e", "n", "t", ":", " ">>

CalledFor(o, pdf_name) ==
    Cardinality({i \in 1..Len(o.extracted) : o.extracted[i] = pdf_name})

\* From the orchestrator before a pass to the one after it: the service was
\* called, once, for the PDFs without an up-to-date entry and for no other,
\* an up-to-date entry was used as it is, the cache file was saved exactly
\* when a PDF was extracted without an error and is as it was otherwise,
\* and it holds no placeholder.
PreloadedByTheCache(before, after, pdfs) ==
    /\ \A pdf_name \in pdfs :
          /\ CalledFor(after, pdf_name)
                = (IF UpToDate(before, pdf_name) THEN 0 ELSE 1)
          /\ UpToDate(before, pdf_name) =>
                /\ DictGet(after.pdf_content_cache, pdf_name, << >>)
                     = DictGet(EntriesOf(before.cache_file), pdf_name, << >>).content
                /\ DictGet(EntriesOf(after.cache_file), pdf_name, << >>)
                     = DictGet(EntriesOf(before.cache_file), pdf_name, << >>)
    /\ after.saved <=>
          \E pdf_name \in pdfs :
             /\ CalledFor(after, pdf_name) > 0
             /\ ~IsPlaceholder(DictGet(after.pdf_content_cache, pdf_name, << >>))
    /\ after.saved => (after.cache_file.exists /\ after.cache_file.readable)
    /\ ~after.saved => after.cache_file = before.cache_file
    /\ \A i \in 1..Len(after.cache_file.data) :
          ~IsPlaceholder(after.cache_file.data[i][2].content)

=============================================================================
